---------------------------- MODULE Spec2Model ----------------------------
(***************************************************************************)
(* Model of the HXL validation engine (hxl/validation.py): SchemaRule,     *)
(* Schema and the edit-distance matcher; of the Tagger (hxl/converters.py) *)
(* and of the column filter (hxl/old_filters/cut.py).                      *)
(*                                                                         *)
(* Strings are sequences of one-character strings.  An optional value is   *)
(* a sequence of length 0 (Python None) or 1 (the value).  A column is     *)
(* referred to by its 1-based position in the header (the identity of the  *)
(* Column object), 0 standing for "no column"; a row by its row number.    *)
(***************************************************************************)
EXTENDS Integers, Sequences, FiniteSets, TLC

VARIABLES
    rules,        \* Schema.rules: sequence of SchemaRule records; the one Tagger
                  \* or ColumnFilter a caller drives
    callback,     \* Schema.callback (None or <<name>>)
    impossible,   \* Schema.impossible_rules: set of rule positions
    columns,      \* the header of the source (sequence of columns)
    source,       \* the rows of the source still to be pulled, by Schema.validate;
                  \* the whole input of a Tagger or ColumnFilter
    pc,           \* position of Schema.validate: "idle", "rows", "done"; of a
                  \* caller driving one rule: "new", "open", "finished"
    result,       \* the running result of Schema.validate / the last call's result
    nrows,        \* number of rows handed to validate_row, or pulled from the
                  \* input, so far
    errors,       \* every error delivered to a callback, in order
    calls,        \* every method call made, in order
    lastCall      \* the last call: its name, argument, the rules before it, its errors

vars == <<rules, callback, impossible, columns, source, pc, result, nrows, errors, calls,
          lastCall>>

-----------------------------------------------------------------------------
(* Bounds of the model *)

\* rows a caller feeds to a rule with a correlation key
MaxCorrRows == 4

-----------------------------------------------------------------------------
(* Optional values and small sequence helpers *)

None == <<>>
Some(x) == <<x>>
Val(o) == o[1]

Min2(a, b) == IF a < b THEN a ELSE b
Min3(a, b, c) == Min2(a, Min2(b, c))

Range(s) == {s[i] : i \in DOMAIN s}

\* the elements of a finite set of integers, ascending
Ascending(S) ==
    [k \in 1..Cardinality(S) |-> CHOOSE i \in S : Cardinality({j \in S : j < i}) = k - 1]

\* the distinct elements of s in order of first appearance (dict key order)
RECURSIVE Distinct(_)
Distinct(s) ==
    IF s = <<>> THEN <<>>
    ELSE LET init == Distinct(SubSeq(s, 1, Len(s) - 1))
             last == s[Len(s)]
         IN  IF last \in Range(init) THEN init ELSE Append(init, last)

\* Python's sorted(s, key=..., reverse=True), gt holding the pairs <<a, b>> of
\* elements where the key of a is greater than the key of b: a stable sort,
\* elements with equal keys keep their original order
SortedDesc(s, gt) ==
    LET rank(i) == Cardinality({j \in DOMAIN s :
                        <<s[j], s[i]>> \in gt \/ (<<s[i], s[j]>> \notin gt /\ j < i)}) + 1
    IN  [k \in DOMAIN s |-> s[CHOOSE i \in DOMAIN s : rank(i) = k]]

-----------------------------------------------------------------------------
(* Characters and strings *)

IsSpace(c) == c = " "
IsDigit(c) == c \in {"0", "1", "2", "3", "4", "5", "6", "7", "8", "9"}

Lower(c) ==
    CASE c = "A" -> "a"
      [] c = "B" -> "b"
      [] c = "C" -> "c"
      [] c = "P" -> "p"
      [] c = "E" -> "e"
      [] c = "F" -> "f"
      [] c = "L" -> "l"
      [] c = "N" -> "n"
      [] c = "O" -> "o"
      [] c = "R" -> "r"
      [] c = "S" -> "s"
      [] c = "T" -> "t"
      [] c = "U" -> "u"
      [] c = "Y" -> "y"
      [] OTHER -> c

\* code-point order of the characters the model uses
Ord(c) ==
    CASE c = " " -> 32
      [] c = "0" -> 48
      [] c = "1" -> 49
      [] c = "2" -> 50
      [] c = "3" -> 51
      [] c = "4" -> 52
      [] c = "5" -> 53
      [] c = "6" -> 54
      [] c = "7" -> 55
      [] c = "8" -> 56
      [] c = "9" -> 57
      [] c = "(" -> 40
      [] c = ")" -> 41
      [] c = "+" -> 43
      [] c = "-" -> 45
      [] c = "@" -> 64
      [] c = "A" -> 65
      [] c = "B" -> 66
      [] c = "C" -> 67
      [] c = "P" -> 80
      [] c = "X" -> 88
      [] c = "a" -> 97
      [] c = "b" -> 98
      [] c = "c" -> 99
      [] c = "l" -> 108
      [] c = "o" -> 111
      [] c = "p" -> 112
      [] OTHER -> 120

\* Python's str < str
RECURSIVE StrLess(_, _)
StrLess(a, b) ==
    IF b = <<>> THEN FALSE
    ELSE IF a = <<>> THEN TRUE
    ELSE IF Ord(a[1]) # Ord(b[1]) THEN Ord(a[1]) < Ord(b[1])
    ELSE StrLess(Tail(a), Tail(b))

\* Python's tuple-of-str < tuple-of-str
RECURSIVE TupleLess(_, _)
TupleLess(a, b) ==
    IF b = <<>> THEN FALSE
    ELSE IF a = <<>> THEN TRUE
    ELSE IF a[1] # b[1] THEN StrLess(a[1], b[1])
    ELSE TupleLess(Tail(a), Tail(b))

-----------------------------------------------------------------------------
(* hxl.datatypes: the helpers the validator calls *)

\* is_empty(value): no text, or white space only
is_empty(v) == \A i \in DOMAIN v : IsSpace(v[i])

\* normalise_space(v): leading and trailing white space removed, inner runs
\* of white space collapsed to one space
RECURSIVE normalise_space(_)
normalise_space(v) ==
    IF v = <<>> THEN <<>>
    ELSE IF IsSpace(v[1]) THEN normalise_space(Tail(v))
    ELSE LET rest == normalise_space(Tail(v))
         IN  IF Len(v) > 1 /\ IsSpace(v[2]) /\ rest # <<>>
             THEN <<v[1], " ">> \o rest
             ELSE <<v[1]>> \o rest

\* normalise_string(v): normalise_space, then lower case
normalise_string(v) ==
    LET s == normalise_space(v) IN [i \in DOMAIN s |-> Lower(s[i])]

\* normalise(v, column): the normalised form used for keys and uniqueness
normalise(v) == normalise_string(v)

\* is_number(v): a non-empty run of digits (white space around it ignored)
is_number(v) ==
    LET s == normalise_space(v)
    IN  s # <<>> /\ \A i \in DOMAIN s : IsDigit(s[i])

\* float(v) of a value for which is_number holds
RECURSIVE ToNumber(_)
ToNumber(s) ==
    IF s = <<>> THEN 0
    ELSE 10 * ToNumber(SubSeq(s, 1, Len(s) - 1)) + (Ord(s[Len(s)]) - Ord("0"))

float(v) == ToNumber(normalise_space(v))

\* is_date(v): digits in groups separated by "-" (an ISO-like date)
is_date(v) ==
    LET s == normalise_space(v)
    IN  /\ \E i \in DOMAIN s : s[i] = "-"
        /\ \A i \in DOMAIN s : IsDigit(s[i]) \/ s[i] = "-"
        /\ s[1] # "-" /\ s[Len(s)] # "-"

\* typeof(v, column): the inferred datatype of a non-empty value
typeof(v) ==
    IF is_number(v) THEN "number"
    ELSE IF is_date(v) THEN "date"
    ELSE "text"

-----------------------------------------------------------------------------
(* hxl.model: columns, tag patterns and rows *)

\* A column has a tag and a set of attributes; a tag pattern names a tag and
\* the attributes a column must carry.
Column(tag, attrs) == [tag |-> tag, attrs |-> attrs]
Pattern(tag, attrs) == [tag |-> tag, attrs |-> attrs]

\* TagPattern.match(column)
match(pattern, column) ==
    pattern.tag = column.tag /\ pattern.attrs \subseteq column.attrs

\* Column.display_tag: the hashtag with its attributes
display_tag(column) == <<column.tag, column.attrs>>

\* A row: its header, its values and its row number
Row(cols, values, n) == [columns |-> cols, values |-> values, n |-> n]

\* the positions of the row's columns that match the pattern, in column order
MatchingColumns(row, pattern) ==
    Ascending({i \in DOMAIN row.columns :
                  i <= Len(row.values) /\ match(pattern, row.columns[i])})

\* Row.get_all(pattern): the values of the matching columns, in column order
get_all(row, pattern) ==
    LET idx == MatchingColumns(row, pattern)
    IN  [k \in DOMAIN idx |-> row.values[idx[k]]]

\* Row.key(patterns): the normalised values of the columns that match any of
\* the patterns, in column order
key(row, patterns) ==
    LET idx == Ascending({i \in DOMAIN row.values :
                   i <= Len(row.columns)
                   /\ \E k \in DOMAIN patterns : match(patterns[k], row.columns[i])})
    IN  [k \in DOMAIN idx |-> normalise(row.values[idx[k]])]

\* TagPattern.parse_list(specs): parsing leaves a parsed pattern as it is
parse_list(specs) == specs

-----------------------------------------------------------------------------
(* The edit-distance matcher *)

\* get_common_prefix_len(s1, s2): i is the index of the last pair the loop
\* looked at, the first differing pair if there is one
get_common_prefix_len(s1, s2) ==
    LET n == Min2(Len(s1), Len(s2))
        diff == {i \in 1..n : s1[i] # s2[i]}
    IN  IF n = 0 THEN 0
        ELSE IF diff = {} THEN n - 1
        ELSE (CHOOSE i \in diff : \A j \in diff : i <= j) - 1

\* one row of the dynamic-programming matrix of get_edit_distance: the new
\* row distances_ built from the previous row for character c2 of s2
RECURSIVE EditRow_no_substitution(_, _, _, _, _)
\* variant: a row of the matrix built without the diagonal cell
EditRow_no_substitution(s1, c2, distances, acc, i1) ==
    IF i1 > Len(s1) THEN acc
    ELSE EditRow_no_substitution(s1, c2, distances,
                 Append(acc,
                        IF s1[i1] = c2 THEN distances[i1]
                        ELSE 1 + Min2(distances[i1 + 1], acc[Len(acc)])),
                 i1 + 1)

RECURSIVE EditRow(_, _, _, _, _)
EditRow(s1, c2, distances, acc, i1) ==
    IF i1 > Len(s1) THEN acc
    ELSE EditRow(s1, c2, distances,
                 Append(acc,
                        IF s1[i1] = c2 THEN distances[i1]
                        ELSE 1 + Min3(distances[i1], distances[i1 + 1], acc[Len(acc)])),
                 i1 + 1)

RECURSIVE EditRows(_, _, _, _)
EditRows(s1, s2, distances, i2) ==
    IF i2 > Len(s2) THEN distances
    ELSE EditRows(s1, s2, EditRow(s1, s2[i2], distances, <<i2>>, 1), i2 + 1)

\* get_edit_distance(s1, s2)
get_edit_distance(a, b) ==
    LET s1 == IF Len(a) > Len(b) THEN b ELSE a
        s2 == IF Len(a) > Len(b) THEN a ELSE b
        last == EditRows(s1, s2, [i \in 1..(Len(s1) + 1) |-> i - 1], 1)
    IN  last[Len(last)]

RECURSIVE ClosestLoop_no_cutoff(_, _, _, _)
\* variant: the loop over the candidates without the cutoff at len(s)/2
ClosestLoop_no_cutoff(s, allowed, best, i) ==
    IF i > Len(allowed) THEN best
    ELSE LET value == allowed[i]
             distance == get_edit_distance(s, value)
             prefix_len == get_common_prefix_len(s, value)
         IN  IF best # None /\ distance > Val(best).distance
             THEN ClosestLoop_no_cutoff(s, allowed, best, i + 1)
             ELSE IF best = None
                     \/ distance < Val(best).distance
                     \/ (distance = Val(best).distance /\ prefix_len > Val(best).prefix_len)
             THEN ClosestLoop_no_cutoff(s, allowed,
                      Some([value |-> value, distance |-> distance, prefix_len |-> prefix_len]),
                      i + 1)
             ELSE ClosestLoop_no_cutoff(s, allowed, best, i + 1)

\* find_closest_match(s, allowed_values): the loop over the candidates, with
\* best_match None or <<[value, distance, prefix_len]>>
RECURSIVE ClosestLoop(_, _, _, _)
ClosestLoop(s, allowed, best, i) ==
    IF i > Len(allowed) THEN best
    ELSE LET value == allowed[i]
             distance == get_edit_distance(s, value)
             prefix_len == get_common_prefix_len(s, value)
         IN  IF (best # None /\ distance > Val(best).distance) \/ (2 * distance > Len(s))
             THEN ClosestLoop(s, allowed, best, i + 1)
             ELSE IF best = None
                     \/ distance < Val(best).distance
                     \/ (distance = Val(best).distance /\ prefix_len > Val(best).prefix_len)
             THEN ClosestLoop(s, allowed,
                      Some([value |-> value, distance |-> distance, prefix_len |-> prefix_len]),
                      i + 1)
             ELSE ClosestLoop(s, allowed, best, i + 1)

find_closest_match(s, allowed_values) ==
    LET best == ClosestLoop(s, allowed_values, None, 1)
    IN  IF best = None THEN None ELSE Some(Val(best).value)

-----------------------------------------------------------------------------
(* SchemaRule: construction and init *)

\* SchemaRule.__init__: the constraint fields as given, the accumulators empty.
\* cfg holds the constructor's arguments; id is the identity of the object.
SchemaRule(id, cfg) ==
    [id |-> id,
     tag_pattern |-> cfg.tag_pattern,
     min_occur |-> cfg.min_occur,
     max_occur |-> cfg.max_occur,
     data_type |-> cfg.data_type,
     min_value |-> cfg.min_value,
     max_value |-> cfg.max_value,
     regex |-> cfg.regex,
     enum |-> cfg.enum,
     case_sensitive |-> cfg.case_sensitive,
     consistent_datatypes |-> cfg.consistent_datatypes,
     callback |-> cfg.callback,
     required |-> cfg.required,
     unique |-> cfg.unique,
     unique_key |-> cfg.unique_key,
     correlation_key |-> cfg.correlation_key,
     initialised |-> FALSE,
     enum_map |-> None,
     unique_value_map |-> {},
     unique_key_map |-> {},
     correlation_map |-> <<>>,
     suggestion_map |-> <<>>,
     consistency_map |-> <<>>]

\* the constructor's defaults
DefaultCfg(tag_pattern) ==
    [tag_pattern |-> tag_pattern, min_occur |-> None, max_occur |-> None,
     data_type |-> None, min_value |-> None, max_value |-> None, regex |-> None,
     enum |-> None, case_sensitive |-> FALSE, consistent_datatypes |-> FALSE,
     callback |-> None, required |-> FALSE, unique |-> FALSE, unique_key |-> None,
     correlation_key |-> None]

\* d[k] = v on an insertion-ordered dict held as a sequence of [k, v] entries
DictSet(d, k, v) ==
    IF \E i \in DOMAIN d : d[i].k = k
    THEN [i \in DOMAIN d |-> IF d[i].k = k THEN [k |-> k, v |-> v] ELSE d[i]]
    ELSE Append(d, [k |-> k, v |-> v])

DictKeys(d) == [i \in DOMAIN d |-> d[i].k]
DictGet(d, k) == (CHOOSE e \in Range(d) : e.k = k).v

RECURSIVE EnumMapLoop(_, _, _, _)
EnumMapLoop(enum, case_sensitive, m, i) ==
    IF i > Len(enum) THEN m
    ELSE EnumMapLoop(enum, case_sensitive,
                     DictSet(m,
                             IF case_sensitive THEN normalise_space(enum[i])
                             ELSE normalise_string(enum[i]),
                             enum[i]),
                     i + 1)

\* SchemaRule.init
init(rule) ==
    [rule EXCEPT
        !.enum_map = IF rule.enum # None /\ Val(rule.enum) # <<>>
                     THEN Some(EnumMapLoop(Val(rule.enum), rule.case_sensitive, <<>>, 1))
                     ELSE @,
        !.unique_key = IF rule.unique_key # None /\ Val(rule.unique_key) # <<>>
                       THEN Some(Append(parse_list(Val(rule.unique_key)), rule.tag_pattern))
                       ELSE @,
        !.correlation_key = IF rule.correlation_key # None /\ Val(rule.correlation_key) # <<>>
                            THEN Some(parse_list(Val(rule.correlation_key)))
                            ELSE @,
        !.initialised = TRUE]

\* SchemaRule._check_init
check_init(rule) == IF ~rule.initialised THEN init(rule) ELSE rule

-----------------------------------------------------------------------------
(* SchemaRule: reporting and the per-value sub-checks *)

\* the HXLValidationException handed to the callback; cb is the callback that
\* received it.  A row is reported by its number (0: none), a column by its
\* position in the header (0: none).
ValidationError(cb, rule, message, value, row, column, suggested_value) ==
    [cb |-> cb, rule |-> rule.id, message |-> message, value |-> value,
     row |-> row, column |-> column, suggested_value |-> suggested_value]

\* SchemaRule._report_error: the errors delivered (none without a callback);
\* the call itself always returns False
report_error(rule, message, value, row, column, suggested_value) ==
    IF rule.callback # None
    THEN <<ValidationError(Val(rule.callback), rule, message, value, row, column,
                           suggested_value)>>
    ELSE <<>>

Passed == [result |-> TRUE, errs |-> <<>>]
Failed(errs) == [result |-> FALSE, errs |-> errs]

\* re.match(r'^[^@]+@[^@]+$', value)
is_email(v) ==
    /\ Cardinality({i \in DOMAIN v : v[i] = "@"}) = 1
    /\ v[1] # "@"
    /\ v[Len(v)] # "@"

\* re.match(r'^\+?[0-9xX()\s-]{5,}$', value)
is_phone(v) ==
    LET body == IF v # <<>> /\ v[1] = "+" THEN Tail(v) ELSE v
    IN  /\ Len(body) >= 5
        /\ \A i \in DOMAIN body :
              IsDigit(body[i]) \/ IsSpace(body[i]) \/ body[i] \in {"x", "X", "(", ")", "-"}

\* SchemaRule._test_type.  The error's value is the normalised value and its
\* suggested_value the raw value (the fifth positional argument).
test_type(rule, value, row, column, raw_value) ==
    LET bad(message) ==
            Failed(report_error(rule, message, Some(value), row, column, Some(raw_value)))
    IN  CASE rule.data_type = Some("number") ->
                IF ~is_number(value) THEN bad(<<"Expected a number">>) ELSE Passed
          [] rule.data_type = Some("email") ->
                IF ~is_email(value) THEN bad(<<"Expected an email address">>) ELSE Passed
          [] rule.data_type = Some("phone") ->
                IF ~is_phone(value) THEN bad(<<"Expected a phone number">>) ELSE Passed
          [] rule.data_type = Some("date") ->
                IF ~is_date(value) THEN bad(<<"Expected a date of some sort">>) ELSE Passed
          [] OTHER -> Passed

\* SchemaRule._test_range: float() of a value that is no number raises
\* ValueError, caught with result = False and nothing reported
test_range(rule, value, row, column, raw_value) ==
    LET ranged == rule.min_value # None \/ rule.max_value # None
        low == rule.min_value # None /\ is_number(value)
               /\ float(value) < Val(rule.min_value)
        high == rule.max_value # None /\ is_number(value)
                /\ float(value) > Val(rule.max_value)
        lowErr == IF low
                  THEN report_error(rule, <<"Value is less than", Val(rule.min_value)>>,
                                    Some(raw_value), row, column, Some(raw_value))
                  ELSE <<>>
        highErr == IF high
                   THEN report_error(rule, <<"Value is great than", Val(rule.max_value)>>,
                                     Some(raw_value), row, column, Some(raw_value))
                   ELSE <<>>
    IN  IF ranged /\ ~is_number(value) THEN Failed(<<>>)
        ELSE [result |-> ~(low \/ high), errs |-> lowErr \o highErr]

\* re.match(regex, value, flags) for a regex that is a literal text: the
\* value starts with the text, letter case ignored under re.IGNORECASE
re_match(regex, value, ignorecase) ==
    /\ Len(value) >= Len(regex)
    /\ \A i \in DOMAIN regex :
          IF ignorecase THEN Lower(regex[i]) = Lower(value[i]) ELSE regex[i] = value[i]

\* SchemaRule._test_pattern: flags is re.IGNORECASE when case_sensitive is set
test_pattern(rule, value, row, column, raw_value) ==
    IF rule.regex # None /\ Val(rule.regex) # <<>>
    THEN IF ~re_match(Val(rule.regex), value, rule.case_sensitive)
         THEN Failed(report_error(rule, <<"Failed to match pattern", Val(rule.regex)>>,
                                  Some(value), row, column, Some(raw_value)))
         ELSE Passed
    ELSE Passed

\* the suggestion of _test_enumeration: the closest key of the enum map,
\* turned back into the original member when it is a non-empty text
\* variant: the closest normalised key suggested as it is
original_value_normalised(m, closest) == closest

original_value(m, closest) ==
    IF closest # None /\ Val(closest) # <<>>
    THEN Some(DictGet(m, Val(closest)))
    ELSE closest

enum_suggestion(rule, value) ==
    original_value(Val(rule.enum_map),
                   find_closest_match(value, DictKeys(Val(rule.enum_map))))

\* SchemaRule._test_enumeration
test_enumeration(rule, value, row, column, raw_value) ==
    IF rule.enum_map # None /\ value \notin Range(DictKeys(Val(rule.enum_map)))
    THEN Failed(report_error(rule,
                    IF Len(Val(rule.enum)) <= 7
                    THEN <<"Must be one of", Val(rule.enum)>>
                    ELSE <<"Not in allowed values">>,
                    Some(raw_value), row, column, enum_suggestion(rule, value)))
    ELSE Passed

\* variant: _test_unique looking up the value as passed, without normalise()
test_unique_as_passed(rule, value, row, column, raw_value) ==
    IF rule.unique
    THEN LET normalised_value == value
         IN  IF normalised_value \in rule.unique_value_map
             THEN [rule |-> rule, result |-> FALSE,
                   errs |-> report_error(rule, <<"Found duplicate value">>,
                                         Some(raw_value), row, column, None)]
             ELSE [rule |-> [rule EXCEPT !.unique_value_map = @ \cup {normalised_value}],
                   result |-> TRUE, errs |-> <<>>]
    ELSE [rule |-> rule, result |-> TRUE, errs |-> <<>>]

\* SchemaRule._test_unique: result, errors and the rule with the value recorded
test_unique(rule, value, row, column, raw_value) ==
    IF rule.unique
    THEN LET normalised_value == normalise(value)
         IN  IF normalised_value \in rule.unique_value_map
             THEN [rule |-> rule, result |-> FALSE,
                   errs |-> report_error(rule, <<"Found duplicate value">>,
                                         Some(raw_value), row, column, None)]
             ELSE [rule |-> [rule EXCEPT !.unique_value_map = @ \cup {normalised_value}],
                   result |-> TRUE, errs |-> <<>>]
    ELSE [rule |-> rule, result |-> TRUE, errs |-> <<>>]

\* result = True; if not self._test_...(...): result = False, five times over
all_tests(t, r, p, e, u) ==
    [rule |-> u.rule,
     result |-> t.result /\ r.result /\ p.result /\ e.result /\ u.result,
     errs |-> t.errs \o r.errs \o p.errs \o e.errs \o u.errs]

\* variant: validate running the five tests on an empty value too
validate_value_on_empty(rule, raw_value, row, column) ==
    LET value == IF rule.case_sensitive THEN normalise_space(raw_value)
                 ELSE normalise_string(raw_value)
    IN  all_tests(test_type(rule, value, row, column, raw_value),
                  test_range(rule, value, row, column, raw_value),
                  test_pattern(rule, value, row, column, raw_value),
                  test_enumeration(rule, value, row, column, raw_value),
                  test_unique(rule, value, row, column, raw_value))

\* the body of validate once the rule is initialised
validate_value(rule, raw_value, row, column) ==
    IF is_empty(raw_value)
    THEN [rule |-> rule, result |-> TRUE, errs |-> <<>>]
    ELSE LET value == IF rule.case_sensitive THEN normalise_space(raw_value)
                      ELSE normalise_string(raw_value)
         IN  all_tests(test_type(rule, value, row, column, raw_value),
                       test_range(rule, value, row, column, raw_value),
                       test_pattern(rule, value, row, column, raw_value),
                       test_enumeration(rule, value, row, column, raw_value),
                       test_unique(rule, value, row, column, raw_value))

\* SchemaRule.validate(raw_value, row, column)
validate(rule0, raw_value, row, column) ==
    validate_value(check_init(rule0), raw_value, row, column)

-----------------------------------------------------------------------------
(* SchemaRule: column and row validation *)

\* variant: validate_columns testing only for a missing column
validate_columns_any(rule0, cols) ==
    LET rule == check_init(rule0)
        number_seen == Cardinality({i \in DOMAIN cols : match(rule.tag_pattern, cols[i])})
    IN  IF rule.required \/ (rule.min_occur # None /\ Val(rule.min_occur) > 0)
        THEN IF (rule.required /\ number_seen < 1)
                \/ (rule.min_occur # None /\ number_seen < 1)
             THEN [rule |-> rule, result |-> FALSE,
                   errs |-> IF number_seen = 0
                            THEN report_error(rule,
                                     <<"column with this hashtag required but not found">>,
                                     None, 0, 0, None)
                            ELSE report_error(rule,
                                     <<"not enough columns with this hashtag",
                                       Val(rule.min_occur), number_seen>>,
                                     None, 0, 0, None)]
             ELSE [rule |-> rule, result |-> TRUE, errs |-> <<>>]
        ELSE [rule |-> rule, result |-> TRUE, errs |-> <<>>]

\* SchemaRule.validate_columns(columns)
validate_columns(rule0, cols) ==
    LET rule == check_init(rule0)
        number_seen == Cardinality({i \in DOMAIN cols : match(rule.tag_pattern, cols[i])})
    IN  IF rule.required \/ (rule.min_occur # None /\ Val(rule.min_occur) > 0)
        THEN IF (rule.required /\ number_seen < 1)
                \/ (rule.min_occur # None /\ number_seen < Val(rule.min_occur))
             THEN [rule |-> rule, result |-> FALSE,
                   errs |-> IF number_seen = 0
                            THEN report_error(rule,
                                     <<"column with this hashtag required but not found">>,
                                     None, 0, 0, None)
                            ELSE report_error(rule,
                                     <<"not enough columns with this hashtag",
                                       Val(rule.min_occur), number_seen>>,
                                     None, 0, 0, None)]
             ELSE [rule |-> rule, result |-> TRUE, errs |-> <<>>]
        ELSE [rule |-> rule, result |-> TRUE, errs |-> <<>>]

\* positions of the header columns matching the pattern
Matching(cols, pattern) == {i \in DOMAIN cols : match(pattern, cols[i])}
FirstMatching(cols, pattern) ==
    IF Matching(cols, pattern) = {} THEN 0
    ELSE CHOOSE i \in Matching(cols, pattern) : \A j \in Matching(cols, pattern) : i <= j
LastMatching(cols, pattern) ==
    IF Matching(cols, pattern) = {} THEN 0
    ELSE CHOOSE i \in Matching(cols, pattern) : \A j \in Matching(cols, pattern) : i >= j

\* the loop of validate_row over the matching values: validate is given the
\* column at the value's position in the list of matching values
\* if not self.validate(...): result = False
AndThen(acc, v) ==
    [rule |-> v.rule, result |-> acc.result /\ v.result, errs |-> acc.errs \o v.errs]

RECURSIVE ValidateValues(_, _, _, _, _)
ValidateValues(acc, row, values, column_number, number_seen) ==
    IF column_number > Len(values)
    THEN [rule |-> acc.rule, result |-> acc.result, errs |-> acc.errs,
          number_seen |-> number_seen]
    ELSE ValidateValues(AndThen(acc, validate(acc.rule, values[column_number],
                                              row.n, column_number)),
                        row, values, column_number + 1,
                        IF values[column_number] # <<>> THEN number_seen + 1
                        ELSE number_seen)

\* variant: the correlation loop without its break, every matching column recorded
correlation_entries_every_match(rule, row) ==
    IF rule.correlation_key = None THEN <<>>
    ELSE LET k == key(row, Val(rule.correlation_key))
             hits == Ascending({i \in DOMAIN row.values :
                        match(rule.tag_pattern, row.columns[i]) /\ ~is_empty(row.values[i])})
         IN  [n \in DOMAIN hits |->
                 [hashtag |-> display_tag(row.columns[hits[n]]),
                  value |-> normalise(row.values[hits[n]]),
                  key |-> k, row |-> row.n, column |-> hits[n]]]

\* the entry validate_row adds to the correlation map: for the first matching
\* column that holds a non-empty value
correlation_entries(rule, row) ==
    IF rule.correlation_key = None THEN <<>>
    ELSE LET k == key(row, Val(rule.correlation_key))
             hits == {i \in DOMAIN row.values :
                        match(rule.tag_pattern, row.columns[i]) /\ ~is_empty(row.values[i])}
         IN  IF hits = {} THEN <<>>
             ELSE LET i == Ascending(hits)[1]
                  IN  <<[hashtag |-> display_tag(row.columns[i]),
                         value |-> normalise(row.values[i]),
                         key |-> k, row |-> row.n, column |-> i]>>

\* the entries validate_row adds to the consistency map: one for every
\* matching column that holds a non-empty value
consistency_entries(rule, row) ==
    IF ~rule.consistent_datatypes THEN <<>>
    ELSE LET hits == Ascending({i \in DOMAIN row.values :
                        match(rule.tag_pattern, row.columns[i]) /\ ~is_empty(row.values[i])})
         IN  [n \in DOMAIN hits |->
                 [hashtag |-> display_tag(row.columns[hits[n]]),
                  type |-> typeof(row.values[hits[n]]),
                  row |-> row.n, column |-> hits[n], value |-> row.values[hits[n]]]]

\* variant: validate_row not recording the unique key of the row
row_checks_key_unrecorded(vals, row) ==
    LET pattern == vals.rule.tag_pattern
        first == FirstMatching(row.columns, pattern)
        last == LastMatching(row.columns, pattern)
        rule2 == vals.rule
        number_seen == vals.number_seen
        needRequired == rule2.required /\ number_seen < 1
        needMin == rule2.min_occur # None /\ number_seen < Val(rule2.min_occur)
        needMax == rule2.max_occur # None /\ number_seen > Val(rule2.max_occur)
        \* the local variable column: the first matching column, then rebound
        \* by the loops of the cardinality blocks that ran
        column == IF (needMin \/ needMax) /\ row.columns # <<>> THEN Len(row.columns)
                  ELSE IF needRequired /\ first = 0 THEN Len(row.columns)
                  ELSE first
        requiredErr == IF needRequired
                       THEN report_error(rule2, <<"A value was required">>,
                                         None, row.n, first, None)
                       ELSE <<>>
        minErr == IF needMin
                  THEN report_error(rule2, <<"Expected at least", Val(rule2.min_occur),
                                             number_seen>>, None, row.n, last, None)
                  ELSE <<>>
        maxErr == IF needMax
                  THEN report_error(rule2, <<"Expected at most", Val(rule2.max_occur),
                                             number_seen>>, None, row.n, last, None)
                  ELSE <<>>
        ukey == key(row, Val(rule2.unique_key))
        duplicate == rule2.unique_key # None /\ ukey \in rule2.unique_key_map
        dupErr == IF duplicate
                  THEN report_error(rule2, <<"Duplicate row according to tag patterns">>,
                                    None, row.n, column, None)
                  ELSE <<>>
        rule3 == rule2
        rule4 == [rule3 EXCEPT
                    !.correlation_map = @ \o correlation_entries(rule3, row),
                    !.consistency_map = @ \o consistency_entries(rule3, row)]
    IN  [rule |-> rule4,
         result |-> vals.result /\ ~needRequired /\ ~needMin /\ ~needMax /\ ~duplicate,
         errs |-> vals.errs \o requiredErr \o minErr \o maxErr \o dupErr]

\* validate_row after its loop over the values: the cardinality checks, the
\* unique key and the tracking of correlations and datatypes
row_checks(vals, row) ==
    LET pattern == vals.rule.tag_pattern
        first == FirstMatching(row.columns, pattern)
        last == LastMatching(row.columns, pattern)
        rule2 == vals.rule
        number_seen == vals.number_seen
        needRequired == rule2.required /\ number_seen < 1
        needMin == rule2.min_occur # None /\ number_seen < Val(rule2.min_occur)
        needMax == rule2.max_occur # None /\ number_seen > Val(rule2.max_occur)
        \* the local variable column: the first matching column, then rebound
        \* by the loops of the cardinality blocks that ran
        column == IF (needMin \/ needMax) /\ row.columns # <<>> THEN Len(row.columns)
                  ELSE IF needRequired /\ first = 0 THEN Len(row.columns)
                  ELSE first
        requiredErr == IF needRequired
                       THEN report_error(rule2, <<"A value was required">>,
                                         None, row.n, first, None)
                       ELSE <<>>
        minErr == IF needMin
                  THEN report_error(rule2, <<"Expected at least", Val(rule2.min_occur),
                                             number_seen>>, None, row.n, last, None)
                  ELSE <<>>
        maxErr == IF needMax
                  THEN report_error(rule2, <<"Expected at most", Val(rule2.max_occur),
                                             number_seen>>, None, row.n, last, None)
                  ELSE <<>>
        ukey == key(row, Val(rule2.unique_key))
        duplicate == rule2.unique_key # None /\ ukey \in rule2.unique_key_map
        dupErr == IF duplicate
                  THEN report_error(rule2, <<"Duplicate row according to tag patterns">>,
                                    None, row.n, column, None)
                  ELSE <<>>
        rule3 == IF rule2.unique_key # None /\ ~duplicate
                 THEN [rule2 EXCEPT !.unique_key_map = @ \cup {ukey}]
                 ELSE rule2
        rule4 == [rule3 EXCEPT
                    !.correlation_map = @ \o correlation_entries(rule3, row),
                    !.consistency_map = @ \o consistency_entries(rule3, row)]
    IN  [rule |-> rule4,
         result |-> vals.result /\ ~needRequired /\ ~needMin /\ ~needMax /\ ~duplicate,
         errs |-> vals.errs \o requiredErr \o minErr \o maxErr \o dupErr]

\* SchemaRule.validate_row(row)
validate_row(rule0, row) ==
    row_checks(ValidateValues([rule |-> check_init(rule0), result |-> TRUE, errs |-> <<>>],
                              row, get_all(row, rule0.tag_pattern), 1, 0),
               row)

-----------------------------------------------------------------------------
(* SchemaRule: the deferred checks of finish() *)

\* The correlation map (hashtag -> value -> key -> locations) and the
\* consistency map (hashtag -> type -> entries) are held as the sequence of
\* the entries appended, from which the insertion order of every dict level
\* and of every list follows.

RECURSIVE Concat(_)
Concat(ss) == IF ss = <<>> THEN <<>> ELSE ss[1] \o Concat(Tail(ss))

\* the keys of m at one level, in insertion order
CorrHashtags(m) == Distinct([i \in DOMAIN m |-> m[i].hashtag])
CorrValues(m, hashtag) ==
    LET es == SelectSeq(m, LAMBDA e : e.hashtag = hashtag)
    IN  Distinct([i \in DOMAIN es |-> es[i].value])
CorrKeys(m, hashtag, value) ==
    LET es == SelectSeq(m, LAMBDA e : e.hashtag = hashtag /\ e.value = value)
    IN  Distinct([i \in DOMAIN es |-> es[i].key])
CorrLocations(m, hashtag, value, k) ==
    SelectSeq(m, LAMBDA e : e.hashtag = hashtag /\ e.value = value /\ e.key = k)

\* variant: the most common value of the hashtag over all keys
expected_value_any_key(m, hashtag, k) ==
    LET values == CorrValues(m, hashtag)
        count(v) == Len(SelectSeq(m, LAMBDA e : e.hashtag = hashtag /\ e.value = v))
        entries == SortedDesc(values, {p \in Range(values) \X Range(values) :
                                          count(p[1]) > count(p[2])})
    IN  entries[1]

\* expected_values[hashtag][key]: the most common value recorded under the
\* key, the first such value in insertion order when counts tie
expected_value(m, hashtag, k) ==
    LET values == SelectSeq(CorrValues(m, hashtag),
                            LAMBDA v : CorrLocations(m, hashtag, v, k) # <<>>)
        count(v) == Len(CorrLocations(m, hashtag, v, k))
        entries == SortedDesc(values, {p \in Range(values) \X Range(values) :
                                          count(p[1]) > count(p[2])})
    IN  entries[1]

\* variant: the keys of one value sorted without reverse=True
key_locations_ascending(m, hashtag, value) ==
    LET n(k) == Len(CorrLocations(m, hashtag, value, k))
        keys == CorrKeys(m, hashtag, value)
    IN  SortedDesc(keys, {p \in Range(keys) \X Range(keys) :
                            n(p[1]) < n(p[2]) \/ (n(p[1]) = n(p[2]) /\ TupleLess(p[1], p[2]))})

\* key_locations: the keys of one value, sorted by (number of locations, key),
\* most common first
key_locations(m, hashtag, value) ==
    LET n(k) == Len(CorrLocations(m, hashtag, value, k))
        keys == CorrKeys(m, hashtag, value)
    IN  SortedDesc(keys, {p \in Range(keys) \X Range(keys) :
                            n(p[1]) > n(p[2]) \/ (n(p[1]) = n(p[2]) /\ TupleLess(p[2], p[1]))})

\* variant: the loop over key_locations not skipping the most common key
correlation_errors_all_keys(rule, hashtag, value) ==
    LET m == rule.correlation_map
        kl == key_locations(m, hashtag, value)
        forKey(k) ==
            LET expected == expected_value(m, hashtag, k)
                suggested_value == IF value = expected THEN None ELSE Some(expected)
                locations == CorrLocations(m, hashtag, value, k)
            IN  Concat([i \in DOMAIN locations |->
                    report_error(rule, <<"wrong value for related column(s)">>,
                                 Some(value), locations[i].row, locations[i].column,
                                 suggested_value)])
    IN  IF Len(CorrKeys(m, hashtag, value)) > 1
        THEN Concat([i \in 1..Len(kl) |-> forKey(kl[i])])
        ELSE <<>>

\* the errors _finish_correlations reports for one value of one hashtag
correlation_errors(rule, hashtag, value) ==
    LET m == rule.correlation_map
        kl == key_locations(m, hashtag, value)
        forKey(k) ==
            LET expected == expected_value(m, hashtag, k)
                suggested_value == IF value = expected THEN None ELSE Some(expected)
                locations == CorrLocations(m, hashtag, value, k)
            IN  Concat([i \in DOMAIN locations |->
                    report_error(rule, <<"wrong value for related column(s)">>,
                                 Some(value), locations[i].row, locations[i].column,
                                 suggested_value)])
    IN  IF Len(CorrKeys(m, hashtag, value)) > 1
        THEN Concat([i \in 1..(Len(kl) - 1) |-> forKey(kl[i + 1])])
        ELSE <<>>

\* SchemaRule._finish_correlations
finish_correlations(rule) ==
    LET m == rule.correlation_map
        hashtags == CorrHashtags(m)
        forHashtag(h) ==
            LET values == CorrValues(m, h)
            IN  Concat([i \in DOMAIN values |-> correlation_errors(rule, h, values[i])])
    IN  [result |-> Some(\A i \in DOMAIN m : Len(CorrKeys(m, m[i].hashtag, m[i].value)) <= 1),
         errs |-> Concat([i \in DOMAIN hashtags |-> forHashtag(hashtags[i])])]

ConsHashtags(m) == Distinct([i \in DOMAIN m |-> m[i].hashtag])
ConsTypes(m, hashtag) ==
    LET es == SelectSeq(m, LAMBDA e : e.hashtag = hashtag)
    IN  Distinct([i \in DOMAIN es |-> es[i].type])
ConsEntries(m, hashtag, type) ==
    SelectSeq(m, LAMBDA e : e.hashtag = hashtag /\ e.type = type)

\* variant: the types of one hashtag sorted without reverse=True
types_found_ascending(m, hashtag) ==
    LET n(type) == Len(ConsEntries(m, hashtag, type))
        types == ConsTypes(m, hashtag)
    IN  SortedDesc(types, {p \in Range(types) \X Range(types) : n(p[1]) < n(p[2])})

\* variant: the types of one hashtag, most frequent first, of equally
\* frequent ones the one recorded last first
types_found_last_tied(m, hashtag) ==
    LET n(type) == Len(ConsEntries(m, hashtag, type))
        types == ConsTypes(m, hashtag)
        at(type) == CHOOSE i \in DOMAIN types : types[i] = type
    IN  SortedDesc(types, {p \in Range(types) \X Range(types) :
                              \/ n(p[1]) > n(p[2])
                              \/ n(p[1]) = n(p[2]) /\ at(p[1]) > at(p[2])})

\* types_found: the types of one hashtag, most frequent first
types_found(m, hashtag) ==
    LET n(type) == Len(ConsEntries(m, hashtag, type))
        types == ConsTypes(m, hashtag)
    IN  SortedDesc(types, {p \in Range(types) \X Range(types) : n(p[1]) > n(p[2])})

\* SchemaRule._finish_consistency: with an empty map the method returns
\* nothing (None); otherwise True or False
finish_consistency(rule) ==
    LET m == rule.consistency_map
        hashtags == ConsHashtags(m)
        forType(h, type, expected) ==
            LET entries == ConsEntries(m, h, type)
            IN  Concat([i \in DOMAIN entries |->
                    report_error(rule, <<"inconsistent datatype", type, expected>>,
                                 Some(entries[i].value), entries[i].row, entries[i].column,
                                 None)])
        forHashtag(h) ==
            LET tf == types_found(m, h)
            IN  IF Len(tf) > 1
                THEN Concat([i \in 1..(Len(tf) - 1) |-> forType(h, tf[i + 1], tf[1])])
                ELSE <<>>
    IN  IF m = <<>> THEN [result |-> None, errs |-> <<>>]
        ELSE [result |-> Some(\A i \in DOMAIN hashtags : Len(ConsTypes(m, hashtags[i])) <= 1),
              errs |-> Concat([i \in DOMAIN hashtags |-> forHashtag(hashtags[i])])]

\* Python's truth value of a method's return value (None is false)
Truthy(r) == r # None /\ Val(r)

\* variant: finish emptying the correlation and consistency maps it has reported
finish_result_clearing(rule, c, d) ==
    IF rule.consistent_datatypes
    THEN [rule |-> [rule EXCEPT !.correlation_map = <<>>, !.consistency_map = <<>>],
          result |-> Truthy(c.result) /\ Truthy(d.result),
          errs |-> c.errs \o d.errs]
    ELSE [rule |-> [rule EXCEPT !.correlation_map = <<>>],
          result |-> Truthy(c.result), errs |-> c.errs]

\* if not self._finish_correlations(): result = False
\* if self.consistent_datatypes and not self._finish_consistency(): result = False
finish_result(rule, c, d) ==
    IF rule.consistent_datatypes
    THEN [rule |-> rule, result |-> Truthy(c.result) /\ Truthy(d.result),
          errs |-> c.errs \o d.errs]
    ELSE [rule |-> rule, result |-> Truthy(c.result), errs |-> c.errs]

\* SchemaRule.finish
finish(rule) == finish_result(rule, finish_correlations(rule), finish_consistency(rule))

-----------------------------------------------------------------------------
(* Schema *)

\* a SchemaRule method call, as logged in calls
Call(op, rule, row) == [op |-> op, rule |-> rule.id, row |-> row]

\* a Schema method call, as logged in calls (rule 0)
SchemaCall(op, row) == [op |-> op, rule |-> 0, row |-> row]

\* the rule with the Schema's callback put in for the duration of a call
WithCallback(rule, cb) == IF cb # None THEN [rule EXCEPT !.callback = cb] ELSE rule

\* the state a Schema method threads through its loop over the rules
SchemaAcc(rs, imp) ==
    [rules |-> rs, impossible |-> imp, result |-> TRUE, errs |-> <<>>, calls |-> <<>>]

\* variant: the pass of a Schema loop leaving the Schema's callback in the rule
SchemaStep_keeping_callback(acc, i, call, r, marks) ==
    [rules |-> [acc.rules EXCEPT ![i] = r.rule],
     impossible |-> IF marks /\ ~r.result THEN acc.impossible \cup {i} ELSE acc.impossible,
     result |-> acc.result /\ r.result,
     errs |-> acc.errs \o r.errs,
     calls |-> Append(acc.calls, call)]

\* one pass of a Schema loop for rule i, whose method returned r: the rule gets
\* its own callback back; validate_columns also records a failing rule as
\* impossible
SchemaStep(acc, i, call, r, marks) ==
    [rules |-> [acc.rules EXCEPT ![i] = [r.rule EXCEPT !.callback = acc.rules[i].callback]],
     impossible |-> IF marks /\ ~r.result THEN acc.impossible \cup {i} ELSE acc.impossible,
     result |-> acc.result /\ r.result,
     errs |-> acc.errs \o r.errs,
     calls |-> Append(acc.calls, call)]

\* Schema.validate_columns: the loop from rule i on
RECURSIVE SchemaColumnsLoop(_, _, _, _)
SchemaColumnsLoop(acc, cb, cols, i) ==
    IF i > Len(acc.rules) THEN acc
    ELSE SchemaColumnsLoop(
             SchemaStep(acc, i, Call("validate_columns", acc.rules[i], 0),
                        validate_columns(WithCallback(acc.rules[i], cb), cols), TRUE),
             cb, cols, i + 1)

Schema_validate_columns(rs, imp, cb, cols) ==
    SchemaColumnsLoop(SchemaAcc(rs, imp), cb, cols, 1)

\* variant: the loop of Schema.validate_row given up at the first failing rule
RECURSIVE SchemaRowLoop_fail_fast(_, _, _, _)
SchemaRowLoop_fail_fast(acc, cb, row, i) ==
    IF i > Len(acc.rules) \/ ~acc.result THEN acc
    ELSE IF i \in acc.impossible THEN SchemaRowLoop_fail_fast(acc, cb, row, i + 1)
    ELSE SchemaRowLoop_fail_fast(
             SchemaStep(acc, i, Call("validate_row", acc.rules[i], row.n),
                        validate_row(WithCallback(acc.rules[i], cb), row), FALSE),
             cb, row, i + 1)

\* Schema.validate_row: the loop from rule i on
RECURSIVE SchemaRowLoop(_, _, _, _)
SchemaRowLoop(acc, cb, row, i) ==
    IF i > Len(acc.rules) THEN acc
    ELSE IF i \in acc.impossible THEN SchemaRowLoop(acc, cb, row, i + 1)
    ELSE SchemaRowLoop(
             SchemaStep(acc, i, Call("validate_row", acc.rules[i], row.n),
                        validate_row(WithCallback(acc.rules[i], cb), row), FALSE),
             cb, row, i + 1)

\* variant: Schema.validate_row not consulting impossible_rules
Schema_validate_row_all(rs, imp, cb, row) ==
    [SchemaRowLoop(SchemaAcc(rs, {}), cb, row, 1) EXCEPT !.impossible = imp]

Schema_validate_row(rs, imp, cb, row) ==
    SchemaRowLoop(SchemaAcc(rs, imp), cb, row, 1)

\* Schema.validate_dataset: the loop from rule i on
RECURSIVE SchemaDatasetLoop(_, _, _)
SchemaDatasetLoop(acc, cb, i) ==
    IF i > Len(acc.rules) THEN acc
    ELSE SchemaDatasetLoop(
             SchemaStep(acc, i, Call("finish", acc.rules[i], 0),
                        finish(WithCallback(acc.rules[i], cb)), FALSE),
             cb, i + 1)

Schema_validate_dataset(rs, imp, cb) ==
    SchemaDatasetLoop(SchemaAcc(rs, imp), cb, 1)

-----------------------------------------------------------------------------
(* Schema.validate(source), in its three phases *)

\* the state of the run after a Schema method called with arg returned r
SchemaReturned(op, arg, row, r) ==
    /\ rules' = r.rules
    /\ impossible' = r.impossible
    /\ result' = (result /\ r.result)
    /\ errors' = errors \o r.errs
    /\ calls' = calls \o <<SchemaCall(op, row)>> \o r.calls
    /\ lastCall' = [op |-> op, arg |-> arg, before |-> rules, errs |-> r.errs]

\* result = True; if not self.validate_columns(source.columns): result = False
ValidateColumnsPhase ==
    /\ pc = "idle"
    /\ SchemaReturned("Schema.validate_columns", columns, 0,
                      Schema_validate_columns(rules, impossible, callback, columns))
    /\ pc' = "rows"
    /\ UNCHANGED <<callback, columns, source, nrows>>

\* for row in source: if not self.validate_row(row): result = False
ValidateRowPhase ==
    /\ pc = "rows"
    /\ nrows < Len(source)
    /\ SchemaReturned("Schema.validate_row", source[nrows + 1], source[nrows + 1].n,
                      Schema_validate_row(rules, impossible, callback, source[nrows + 1]))
    /\ nrows' = nrows + 1
    /\ UNCHANGED <<callback, columns, source, pc>>

\* variant: the finalize phase entered before the source is exhausted
ValidateDatasetPhaseEarly ==
    /\ pc = "rows"
    /\ nrows <= Len(source)
    /\ SchemaReturned("Schema.validate_dataset", <<>>, 0,
                      Schema_validate_dataset(rules, impossible, callback))
    /\ pc' = "done"
    /\ UNCHANGED <<callback, columns, source, nrows>>

\* the source is exhausted: if not self.validate_dataset(): result = False;
\* return result
ValidateDatasetPhase ==
    /\ pc = "rows"
    /\ nrows = Len(source)
    /\ SchemaReturned("Schema.validate_dataset", <<>>, 0,
                      Schema_validate_dataset(rules, impossible, callback))
    /\ pc' = "done"
    /\ UNCHANGED <<callback, columns, source, nrows>>

-----------------------------------------------------------------------------
(* Schema.validate(source) as one call, on a Schema constructed for it *)

\* Schema.__init__(rules, callback): a copy of the list of rules, the callback,
\* no impossible rules
Schema(rs, cb) == [rules |-> rs, callback |-> cb, impossible_rules |-> {}]

\* if not self.validate_...(...): result = False, for a Schema method that returned r
SchemaThen(acc, r) ==
    [rules |-> r.rules, impossible |-> r.impossible, result |-> acc.result /\ r.result,
     errs |-> acc.errs \o r.errs, calls |-> acc.calls \o r.calls]

\* for row in source: if not self.validate_row(row): result = False
RECURSIVE SourceLoop(_, _, _, _)
SourceLoop(acc, cb, src, n) ==
    IF n > Len(src) THEN acc
    ELSE SourceLoop(SchemaThen(acc, Schema_validate_row(acc.rules, acc.impossible, cb, src[n])),
                    cb, src, n + 1)

\* the finalize phase of Schema.validate
SourceEnd(acc, cb) ==
    SchemaThen(acc, Schema_validate_dataset(acc.rules, acc.impossible, cb))

\* Schema.validate(source)
Schema_validate(schema, cols, src) ==
    SourceEnd(SourceLoop(Schema_validate_columns(schema.rules, schema.impossible_rules,
                                                 schema.callback, cols),
                         schema.callback, src, 1),
              schema.callback)

\* variant: a rule constructed with the accumulators of another rule
SchemaRule_sharing(rule) == rule

\* a rule freshly constructed with the arguments the given rule was
\* constructed with (the constraint fields, none of which validation changes
\* for a rule without key patterns)
SchemaRule_again(rule) ==
    SchemaRule(rule.id,
               [tag_pattern |-> rule.tag_pattern, min_occur |-> rule.min_occur,
                max_occur |-> rule.max_occur, data_type |-> rule.data_type,
                min_value |-> rule.min_value, max_value |-> rule.max_value,
                regex |-> rule.regex, enum |-> rule.enum,
                case_sensitive |-> rule.case_sensitive,
                consistent_datatypes |-> rule.consistent_datatypes,
                callback |-> rule.callback, required |-> rule.required,
                unique |-> rule.unique, unique_key |-> rule.unique_key,
                correlation_key |-> rule.correlation_key])

-----------------------------------------------------------------------------
(* Schema.parse(source, callback) *)

\* str.lower()
lower(s) == [i \in DOMAIN s |-> Lower(s[i])]

\* SchemaRule.DATATYPES
DATATYPES ==
    {<<"t", "e", "x", "t">>, <<"n", "u", "m", "b", "e", "r">>, <<"u", "r", "l">>,
     <<"e", "m", "a", "i", "l">>, <<"p", "h", "o", "n", "e">>, <<"d", "a", "t", "e">>}

\* the characters that re.sub(r'[^a-z_-]', '', type) keeps
IsTypeChar(c) ==
    c \in {"a", "b", "c", "d", "e", "f", "g", "h", "i", "j", "k", "l", "m", "n", "o", "p",
           "q", "r", "s", "t", "u", "v", "w", "x", "y", "z", "_", "-"}

\* parse_type(type): the normalised name if it is a known datatype, None if not
parse_type(type) ==
    IF type # None /\ Val(type) # <<>>
    THEN IF SelectSeq(lower(Val(type)), IsTypeChar) \in DATATYPES
         THEN Some(SelectSeq(lower(Val(type)), IsTypeChar))
         ELSE None
    ELSE None

\* the value a helper returned, or the exception it raised
Returns(v) == [raised |-> FALSE, value |-> v, exception |-> <<>>]
Raises(message) == [raised |-> TRUE, value |-> FALSE, exception |-> <<message>>]

\* variant: to_boolean taking every unrecognised text for false
to_boolean_lenient(s) ==
    IF s = None \/ Val(s) = <<>> THEN Returns(FALSE)
    ELSE Returns(lower(Val(s)) \in {<<"y">>, <<"y", "e", "s">>, <<"t">>, <<"t", "r", "u", "e">>})

\* to_boolean(s)
to_boolean(s) ==
    IF s = None \/ Val(s) = <<>>
          \/ lower(Val(s)) \in {<<"0">>, <<"n">>, <<"n", "o">>, <<"f">>,
                                <<"f", "a", "l", "s", "e">>}
    THEN Returns(FALSE)
    ELSE IF lower(Val(s)) \in {<<"y">>, <<"y", "e", "s">>, <<"t">>, <<"t", "r", "u", "e">>}
    THEN Returns(TRUE)
    ELSE Raises(<<"Unrecognised true/false value", Val(s)>>)

\* the body of the loop of Schema.parse for a row with a tag, given what
\* to_boolean returned for its four boolean cells: the first call that raised
\* ends the parse; otherwise the rule is built, initialised and returned
parsed_rule(id, row, required, unique, case_sensitive, consistent_datatypes) ==
    IF required.raised THEN required
    ELSE IF unique.raised THEN unique
    ELSE IF case_sensitive.raised THEN case_sensitive
    ELSE IF consistent_datatypes.raised THEN consistent_datatypes
    ELSE Returns(init([SchemaRule(id, DefaultCfg(Val(row.tag))) EXCEPT
                          !.data_type = parse_type(row.datatype),
                          !.required = required.value,
                          !.unique = unique.value,
                          !.case_sensitive = case_sensitive.value,
                          !.consistent_datatypes = consistent_datatypes.value]))

\* a row of the schema source is held as the cells row.get() finds: tag
\* (#valid_tag), datatype (#valid_datatype-consistent), required
\* (#valid_required-min-max), unique (#valid_unique-key), case_sensitive
\* (#valid_value+case), consistent_datatypes (#valid_datatype+consistent);
\* None is a cell the row does not have.  The other cells are absent.
parse_row(id, row) ==
    parsed_rule(id, row, to_boolean(row.required), to_boolean(row.unique),
                to_boolean(row.case_sensitive), to_boolean(row.consistent_datatypes))

\* for row in source: ... schema.rules.append(rule), from row n on; a row
\* without a tag is passed over
RECURSIVE ParseLoop(_, _, _)
ParseLoop(schema, src, n) ==
    IF n > Len(src) THEN Returns(schema)
    ELSE IF src[n].tag = None THEN ParseLoop(schema, src, n + 1)
    ELSE IF parse_row(Len(schema.rules) + 1, src[n]).raised
         THEN parse_row(Len(schema.rules) + 1, src[n])
    ELSE ParseLoop([schema EXCEPT
                       !.rules = Append(@, parse_row(Len(schema.rules) + 1, src[n]).value)],
                   src, n + 1)

\* Schema.parse(source, callback) for a source that is a dataset
Schema_parse(src, cb) == ParseLoop(Schema(<<>>, cb), src, 1)

\* the caller's state after Schema.parse returned the Schema or raised
Parsed(r) ==
    /\ rules' = IF r.raised THEN <<>> ELSE r.value.rules
    /\ pc' = IF r.raised THEN "raised" ELSE "parsed"
    /\ result' = ~r.raised
    /\ calls' = Append(calls, SchemaCall("Schema.parse", 0))
    /\ lastCall' = [op |-> "Schema.parse", arg |-> source, before |-> rules,
                    errs |-> r.exception]

\* schema = Schema.parse(source, callback)
CallParse ==
    /\ pc = "new"
    /\ Parsed(Schema_parse(source, callback))
    /\ UNCHANGED <<callback, impossible, columns, source, nrows, errors>>

-----------------------------------------------------------------------------
(* A caller driving one SchemaRule (rules[1]) directly *)

\* the caller's state after a method of the rule, called with arg, returned r
Returned(op, arg, row, r) ==
    /\ rules' = [rules EXCEPT ![1] = r.rule]
    /\ result' = r.result
    /\ errors' = errors \o r.errs
    /\ calls' = Append(calls, Call(op, rules[1], row))
    /\ lastCall' = [op |-> op, arg |-> arg, before |-> rules, errs |-> r.errs]

\* rule.validate_columns(columns)
CallValidateColumns ==
    /\ pc = "new"
    /\ Returned("validate_columns", columns, 0, validate_columns(rules[1], columns))
    /\ pc' = "open"
    /\ UNCHANGED <<callback, impossible, columns, source, nrows>>

\* variant: validate_row followed at once by the deferred checks of finish
CallValidateRowFinishing(values, max) ==
    /\ pc \in {"new", "open"}
    /\ nrows < max
    /\ LET row == Row(columns, values, nrows + 1)
       IN  /\ Returned("validate_row", row, row.n,
                       AndThen(validate_row(rules[1], row),
                               finish(validate_row(rules[1], row).rule)))
           /\ source' = Append(source, row)
    /\ nrows' = nrows + 1
    /\ pc' = "open"
    /\ UNCHANGED <<callback, impossible, columns>>

\* rule.validate_row(row), the row being the next one of the stream
CallValidateRow(values, max) ==
    /\ pc \in {"new", "open"}
    /\ nrows < max
    /\ LET row == Row(columns, values, nrows + 1)
       IN  /\ Returned("validate_row", row, row.n, validate_row(rules[1], row))
           /\ source' = Append(source, row)
    /\ nrows' = nrows + 1
    /\ pc' = "open"
    /\ UNCHANGED <<callback, impossible, columns>>

\* rule.validate(raw_value), with no row and no column
CallValidate(raw_value, max) ==
    /\ pc \in {"new", "open"}
    /\ Len(calls) < max
    /\ Returned("validate", raw_value, 0, validate(rules[1], raw_value, 0, 0))
    /\ pc' = "open"
    /\ UNCHANGED <<callback, impossible, columns, source, nrows>>

\* rule.finish(), at the end of the stream
CallFinish ==
    /\ pc \in {"new", "open"}
    /\ Returned("finish", <<>>, 0, finish(rules[1]))
    /\ pc' = "finished"
    /\ UNCHANGED <<callback, impossible, columns, source, nrows>>

\* rule.finish() called again on a rule already finished, no row in between
CallFinishAgain(max) ==
    /\ pc = "finished"
    /\ Len(calls) < max
    /\ Returned("finish", <<>>, 0, finish(rules[1]))
    /\ UNCHANGED <<callback, impossible, columns, source, pc, nrows>>

\* rule.init() called by the caller; the method returns nothing
CallInit(max) ==
    /\ pc \in {"new", "open"}
    /\ Len(calls) < max
    /\ Returned("init", <<>>, 0, [rule |-> init(rules[1]), result |-> result, errs |-> <<>>])
    /\ UNCHANGED <<callback, impossible, columns, source, pc, nrows>>

-----------------------------------------------------------------------------
(* Specification: one rule with a correlation key, driven by a caller *)

Coast == <<"C", "o">>
Plains == <<"P", "l">>
c001 == <<"0", "0", "1">>
c002 == <<"0", "0", "2">>

Adm1 == Column("#adm1", {})
Adm1Name == Column("#adm1", {"name"})
Adm1Code == Column("#adm1", {"code"})

Adm1CodeAlt == Column("#adm1", {"code", "alt"})

\* the rule on #adm1+code with correlation_key=['#adm1'] over the header
\* (#adm1, #adm1+code), and the same rule keyed by #adm1+name over the header
\* (#adm1+name, #adm1+code), and keyed by #adm1+alt over two matching columns
CorrelationSetups ==
    {[columns |-> <<Adm1, Adm1Code>>,
      cfg |-> [DefaultCfg(Pattern("#adm1", {"code"})) EXCEPT
                  !.correlation_key = Some(<<Pattern("#adm1", {})>>),
                  !.callback = Some("cb")]],
     [columns |-> <<Adm1Name, Adm1Code>>,
      cfg |-> [DefaultCfg(Pattern("#adm1", {"code"})) EXCEPT
                  !.correlation_key = Some(<<Pattern("#adm1", {"name"})>>),
                  !.callback = Some("cb")]],
     [columns |-> <<Adm1Code, Adm1CodeAlt>>,
      cfg |-> [DefaultCfg(Pattern("#adm1", {"code"})) EXCEPT
                  !.correlation_key = Some(<<Pattern("#adm1", {"alt"})>>),
                  !.callback = Some("cb")]]}

CorrelationRows == {<<n, c>> : n \in {Coast, Plains, <<>>}, c \in {c001, c002}}

\* a freshly constructed rule in the hands of a caller
InitRule(setup) ==
    /\ rules = <<SchemaRule(1, setup.cfg)>>
    /\ columns = setup.columns
    /\ callback = None
    /\ impossible = {}
    /\ source = <<>>
    /\ pc = "new"
    /\ result = TRUE
    /\ nrows = 0
    /\ errors = <<>>
    /\ calls = <<>>
    /\ lastCall = [op |-> "__init__", arg |-> <<>>, before |-> <<>>, errs |-> <<>>]

InitCorrelation == \E setup \in CorrelationSetups : InitRule(setup)

NextCorrelation ==
    \/ \E values \in CorrelationRows : CallValidateRow(values, MaxCorrRows)
    \/ CallFinish

SpecCorrelation == InitCorrelation /\ [][NextCorrelation]_vars

-----------------------------------------------------------------------------
(* Specification: one rule with unique=true, driven by a caller *)

\* rows a caller feeds to a rule with unique=true
MaxUniqueRows == 3

v1 == <<"1">>
v2 == <<"2">>
va == <<"a">>
vA == <<"A">>
vSpaceA == <<" ", "A">>
vBlank == <<" ">>

IdColumn == Column("#id", {})
IdAltColumn == Column("#id", {"alt"})

\* a unique rule on #id over the header (#id, #id+alt), both columns matching;
\* with and without case_sensitive
UniqueSetups ==
    {[columns |-> <<IdColumn, IdAltColumn>>,
      cfg |-> [DefaultCfg(Pattern("#id", {})) EXCEPT
                  !.unique = TRUE, !.case_sensitive = cs, !.callback = Some("cb")]]
        : cs \in BOOLEAN}

UniqueRows ==
    {<<v, <<>> >> : v \in {v1, v2, va, vA, vBlank, <<>>}}
        \cup {<<v1, v1>>, <<va, vSpaceA>>, <<<<>>, v2>>}

InitUnique == \E setup \in UniqueSetups : InitRule(setup)

NextUnique ==
    \/ \E values \in UniqueRows : CallValidateRow(values, MaxUniqueRows)
    \/ CallFinish

SpecUnique == InitUnique /\ [][NextUnique]_vars

-----------------------------------------------------------------------------
(* Specification: one rule with consistent_datatypes=true, driven by a caller *)

\* rows a caller feeds to a rule with consistent_datatypes=true
MaxConsistencyRows == 3

v200 == <<"2", "0", "0">>
v300 == <<"3", "0", "0">>
vabc == <<"a", "b", "c">>
vDate == <<"1", "-", "2">>

Affected == Column("#affected", {})
AffectedF == Column("#affected", {"f"})
OrgColumn == Column("#org", {})

\* the rule on #affected over the header (#affected, #affected+f), two
\* matching columns with hashtags of their own, and over (#org, #affected)
ConsistencySetups ==
    {[columns |-> cols,
      cfg |-> [DefaultCfg(Pattern("#affected", {})) EXCEPT
                  !.consistent_datatypes = TRUE, !.callback = Some("cb")]]
        : cols \in {<<Affected, AffectedF>>, <<OrgColumn, Affected>>}}

ConsistencyRows ==
    {<<v, <<>> >> : v \in {v200, v300, vabc, vDate, vBlank}}
        \cup {<<v, w>> : v \in {<<>>, v200}, w \in {v200, vabc, vDate}}

InitConsistency == \E setup \in ConsistencySetups : InitRule(setup)

NextConsistency ==
    \/ \E values \in ConsistencyRows : CallValidateRow(values, MaxConsistencyRows)
    \/ CallFinish

SpecConsistency == InitConsistency /\ [][NextConsistency]_vars

-----------------------------------------------------------------------------
(* Specification: validate_columns of one rule over a header *)

\* columns of a header given to validate_columns
MaxColumns == 2

HeaderColumns == {Column("#a", {}), Column("#a", {"x"}), Column("#b", {})}

RECURSIVE SeqsUpTo(_, _)
SeqsUpTo(S, n) ==
    IF n = 0 THEN {<<>>}
    ELSE LET shorter == SeqsUpTo(S, n - 1)
         IN  shorter \cup {Append(s, x) : s \in {q \in shorter : Len(q) = n - 1}, x \in S}

\* rules on #a: required or not, with min_occur unset, 0, 1, 2 or 3
ColumnsSetups ==
    {[columns |-> cols,
      cfg |-> [DefaultCfg(Pattern("#a", {})) EXCEPT
                  !.required = req, !.min_occur = mo, !.callback = Some("cb")]]
        : cols \in SeqsUpTo(HeaderColumns, MaxColumns),
          req \in BOOLEAN,
          mo \in {None, Some(0), Some(1), Some(2), Some(3)}}

InitColumns == \E setup \in ColumnsSetups : InitRule(setup)

NextColumns ==
    \/ CallValidateColumns
    \/ CallFinish

SpecColumns == InitColumns /\ [][NextColumns]_vars

-----------------------------------------------------------------------------
(* Specification: validate of one rule on single values *)

\* calls of validate a caller makes on one rule
MaxValueCalls == 2

v9 == <<"9">>
vab == <<"a", "b">>
v5 == <<"5">>
v15 == <<"1", "5">>

\* rules on #x with every combination of a datatype, a range, a pattern, an
\* enumeration and uniqueness
ValueSetups ==
    {[columns |-> <<Column("#x", {})>>,
      cfg |-> [DefaultCfg(Pattern("#x", {})) EXCEPT
                  !.data_type = dt, !.min_value = rg[1], !.max_value = rg[2],
                  !.regex = re, !.enum = en, !.unique = un, !.callback = Some("cb")]]
        : dt \in {None, Some("number")},
          rg \in {<<None, None>>, <<Some(2), Some(5)>>, <<Some(5), Some(2)>>,
                  <<Some(0), Some(10)>>},
          re \in {None, Some(<<"a">>)},
          en \in {None, Some(<<v1, vab>>)},
          un \in BOOLEAN}

ValuePool == {<<>>, vBlank, v1, v5, v9, v15, va, vab, vA}

InitValue == \E setup \in ValueSetups : InitRule(setup)

NextValue == \E raw_value \in ValuePool : CallValidate(raw_value, MaxValueCalls)

SpecValue == InitValue /\ [][NextValue]_vars

-----------------------------------------------------------------------------
(* Specification: Schema.validate(source) on a freshly constructed Schema *)

\* rows of the source given to Schema.validate
MaxSourceRows == 2

TagA == Column("#a", {})
TagB == Column("#b", {})

\* the rules a Schema is built from: required on #a, min_occur=2 on #a,
\* unique on #a, consistent_datatypes on #b, a range on #b
SchemaCfgs ==
    {[DefaultCfg(Pattern("#a", {})) EXCEPT !.required = TRUE],
     [DefaultCfg(Pattern("#a", {})) EXCEPT !.min_occur = Some(2)],
     [DefaultCfg(Pattern("#a", {})) EXCEPT !.unique = TRUE],
     [DefaultCfg(Pattern("#b", {})) EXCEPT !.consistent_datatypes = TRUE],
     [DefaultCfg(Pattern("#b", {})) EXCEPT !.min_value = Some(2)]}

SchemaHeaders == {<<TagA, TagB>>, <<TagB, TagB>>, <<TagA, TagA>>}

SchemaRows == {<<v1, v1>>, <<v1, va>>, <<va, v9>>, << <<>>, <<>> >>}

\* the callbacks of the Schema and of its rules
SchemaCallbacks == {<<Some("schema_cb"), Some("rule_cb")>>, <<None, Some("rule_cb")>>}

Init ==
    /\ \E c1 \in SchemaCfgs, c2 \in SchemaCfgs, cbs \in SchemaCallbacks :
          /\ rules = <<SchemaRule(1, [c1 EXCEPT !.callback = cbs[2]]),
                       SchemaRule(2, [c2 EXCEPT !.callback = cbs[2]])>>
          /\ callback = cbs[1]
    /\ columns \in SchemaHeaders
    /\ \E rows \in SeqsUpTo(SchemaRows, MaxSourceRows) :
          source = [i \in DOMAIN rows |-> Row(columns, rows[i], i)]
    /\ impossible = {}
    /\ pc = "idle"
    /\ result = TRUE
    /\ nrows = 0
    /\ errors = <<>>
    /\ calls = <<>>
    /\ lastCall = [op |-> "__init__", arg |-> <<>>, before |-> <<>>, errs |-> <<>>]

Next ==
    \/ ValidateColumnsPhase
    \/ ValidateRowPhase
    \/ ValidateDatasetPhase

Spec == Init /\ [][Next]_vars

-----------------------------------------------------------------------------
(* Properties of the correlation check *)

RECURSIVE SumSeq(_)
SumSeq(s) == IF s = <<>> THEN 0 ELSE s[1] + SumSeq(Tail(s))

\* the values of the rows handed to validate_row so far
FedValues == [i \in 1..nrows |-> source[i].values]

CorrErrors ==
    SelectSeq(errors, LAMBDA e : e.message[1] = "wrong value for related column(s)")

\* the errors reported for the location (row, column)
ErrorsAt(errs, row, column) ==
    SelectSeq(errs, LAMBDA e : e.row = row /\ e.column = column)

\* the recorded entries sharing the hashtag and value, resp. hashtag and key
SameValue(m, e) == {i \in DOMAIN m : m[i].hashtag = e.hashtag /\ m[i].value = e.value}
SameKey(m, e) == {i \in DOMAIN m : m[i].hashtag = e.hashtag /\ m[i].key = e.key}
SameValueKey(m, e) == SameValue(m, e) \cap SameKey(m, e)

\* the three rows of the example, and a variant that changes the key instead
CoastExample == << <<Coast, c001>>, <<Coast, c001>>, <<Coast, c002>> >>
PlainsExample == << <<Coast, c001>>, <<Coast, c001>>, <<Plains, c001>> >>

CorrPairs(m) == Distinct([i \in DOMAIN m |-> [hashtag |-> m[i].hashtag, value |-> m[i].value]])

\* the number of locations of the key of e for the value of e, and the
\* greatest such number over the keys of that value
LocationsOf(m, e) == Cardinality(SameValueKey(m, e))
MostLocations(m, e) ==
    CHOOSE n \in 0..Len(m) :
        /\ \E i \in SameValue(m, e) : LocationsOf(m, m[i]) = n
        /\ \A i \in SameValue(m, e) : LocationsOf(m, m[i]) <= n

FirstRecorded(m, e) == CHOOSE i \in SameValue(m, e) : \A j \in SameValue(m, e) : i <= j

\* the entry the error was reported for
EntryOf(m, err) == CHOOSE i \in DOMAIN m : m[i].row = err.row /\ m[i].column = err.column

\* C9 as stated: every correlation error suggests the value of its hashtag
\* with the most locations over all correlation keys, and has no suggestion
\* exactly when the flagged value is that value.
C9_Original ==
    pc = "finished" =>
        LET m == rules[1].correlation_map
            total(i) == Cardinality(SameValue(m, m[i]))
        IN  \A n \in DOMAIN CorrErrors :
                LET i == EntryOf(m, CorrErrors[n])
                IN  \E x \in DOMAIN m :
                      /\ m[x].hashtag = m[i].hashtag
                      /\ \A y \in DOMAIN m : m[y].hashtag = m[i].hashtag => total(y) <= total(x)
                      /\ CorrErrors[n].suggested_value =
                            IF m[i].value = m[x].value THEN None ELSE Some(m[x].value)

\* C9 (amended): every correlation error suggests the value with the most
\* locations under the correlation key of the flagged location (among values
\* with equally many, the one recorded first for the hashtag), and has no
\* suggestion exactly when the flagged value is that value.
C9_SuggestionPerKey ==
    pc = "finished" =>
        LET m == rules[1].correlation_map
        IN  \A n \in DOMAIN CorrErrors :
                LET i == EntryOf(m, CorrErrors[n])
                    K == SameKey(m, m[i])
                    better(x, y) ==
                        \/ LocationsOf(m, m[x]) > LocationsOf(m, m[y])
                        \/ /\ LocationsOf(m, m[x]) = LocationsOf(m, m[y])
                           /\ FirstRecorded(m, m[x]) <= FirstRecorded(m, m[y])
                    x == CHOOSE x \in K : \A y \in K : better(x, y)
                IN  CorrErrors[n].suggested_value =
                        IF m[i].value = m[x].value THEN None ELSE Some(m[x].value)

\* an error that carries a suggestion, and one that carries none
C9_Witness ==
    /\ pc = "finished"
    /\ \E n \in DOMAIN CorrErrors : CorrErrors[n].suggested_value # None
    /\ \E n \in DOMAIN CorrErrors : CorrErrors[n].suggested_value = None

-----------------------------------------------------------------------------
(* Properties of the uniqueness check *)

DuplicateErrors == SelectSeq(errors, LAMBDA e : e.message[1] = "Found duplicate value")

\* the non-empty values of the columns matching the rule, in stream order,
\* each with its row and its position among the row's matching values
MatchingOccurrences(pattern) ==
    Concat([i \in 1..nrows |->
        LET values == get_all(source[i], pattern)
            at == Ascending({k \in DOMAIN values : ~is_empty(values[k])})
        IN  [n \in DOMAIN at |-> [row |-> i, column |-> at[n], value |-> values[at[n]]]]])

\* C5: for a rule with unique=true, a duplicate-value error is reported for a
\* non-empty matching value exactly when its normalised value occurred earlier
\* in the stream (in an earlier row or an earlier matching column of the same
\* row), never for a first occurrence; so the number of duplicate-value errors
\* is the number of non-empty matching values minus the number of distinct
\* normalised values, and the values 1, 2, 1 give one error, at the third row.
C5_DuplicateValues ==
    LET occ == MatchingOccurrences(rules[1].tag_pattern)
        seenBefore(k) == \E j \in 1..(k - 1) : normalise(occ[j].value) = normalise(occ[k].value)
    IN  /\ \A k \in DOMAIN occ :
              Len(ErrorsAt(DuplicateErrors, occ[k].row, occ[k].column))
                  = IF seenBefore(k) THEN 1 ELSE 0
        /\ Len(DuplicateErrors)
              = Len(occ) - Cardinality({normalise(occ[k].value) : k \in DOMAIN occ})
        /\ FedValues = << <<v1, <<>> >>, <<v2, <<>> >>, <<v1, <<>> >> >> =>
              /\ Len(DuplicateErrors) = 1
              /\ DuplicateErrors[1].row = 3

\* a duplicate within one row and a duplicate of an earlier row that differs
\* from it in letter case
C5_Witness ==
    /\ \E n \in DOMAIN DuplicateErrors :
          DuplicateErrors[n].column = 2 /\ DuplicateErrors[n].value = Some(v1)
    /\ \E n \in DOMAIN DuplicateErrors :
          /\ DuplicateErrors[n].value = Some(vA)
          /\ \E i \in 1..nrows : source[i].values[1] = va
    /\ Len(DuplicateErrors) = 2

-----------------------------------------------------------------------------
(* Properties of the consistency check *)

ConsistencyErrors == SelectSeq(errors, LAMBDA e : e.message[1] = "inconsistent datatype")

\* the recorded entries sharing the hashtag, resp. hashtag and type
SameHashtag(m, e) == {i \in DOMAIN m : m[i].hashtag = e.hashtag}
SameType(m, e) == {i \in SameHashtag(m, e) : m[i].type = e.type}

\* C6: for a rule with consistent_datatypes=true, after finish(): a hashtag
\* with one recorded type gets no inconsistency error; a hashtag with several
\* has a most frequent type whose occurrences get none, while every occurrence
\* of every other type gets exactly one error, naming its own type and the
\* most frequent type as expected; 200, abc, 300 give one error, for abc,
\* expecting number.
C6_InconsistentDatatypes ==
    pc = "finished" =>
        LET m == rules[1].consistency_map
            types(i) == {m[j].type : j \in SameHashtag(m, m[i])}
            reports(i) == ErrorsAt(ConsistencyErrors, m[i].row, m[i].column)
        IN  /\ \A i \in DOMAIN m :
                  IF Cardinality(types(i)) = 1 THEN reports(i) = <<>>
                  ELSE \E t \in SameHashtag(m, m[i]) :
                          /\ \A j \in SameHashtag(m, m[i]) :
                                Cardinality(SameType(m, m[j])) <= Cardinality(SameType(m, m[t]))
                          /\ \A j \in SameHashtag(m, m[i]) :
                                IF m[j].type = m[t].type THEN reports(j) = <<>>
                                ELSE /\ Len(reports(j)) = 1
                                     /\ reports(j)[1].message
                                          = <<"inconsistent datatype", m[j].type, m[t].type>>
                                     /\ reports(j)[1].value = Some(m[j].value)
            /\ \A n \in DOMAIN ConsistencyErrors :
                  \E i \in DOMAIN m : /\ m[i].row = ConsistencyErrors[n].row
                                      /\ m[i].column = ConsistencyErrors[n].column
            /\ (columns[1] = Affected
                /\ FedValues = << <<v200, <<>> >>, <<vabc, <<>> >>, <<v300, <<>> >> >>) =>
                  /\ Len(ConsistencyErrors) = 1
                  /\ ConsistencyErrors[1].value = Some(vabc)
                  /\ ConsistencyErrors[1].message = <<"inconsistent datatype", "text", "number">>

\* three types recorded for one hashtag, the two less frequent ones reported,
\* and a second hashtag with a single type
C6_Witness ==
    /\ pc = "finished"
    /\ LET m == rules[1].consistency_map
       IN  /\ \E i \in DOMAIN m : Cardinality({m[j].type : j \in SameHashtag(m, m[i])}) = 3
           /\ \E i \in DOMAIN m : Cardinality({m[j].type : j \in SameHashtag(m, m[i])}) = 1
    /\ Len(ConsistencyErrors) = 2

-----------------------------------------------------------------------------
(* Properties of validate_columns *)

\* the number of header columns matching the rule's pattern
HeaderMatches == Cardinality({i \in DOMAIN columns : match(rules[1].tag_pattern, columns[i])})

\* C7: validate_columns returns true iff the header has at least one matching
\* column when the rule is required and at least min_occur when min_occur is
\* set; it invokes the callback once when it returns false and never when it
\* returns true; a rule that is required or has min_occur > 0 fails, with one
\* error, over a header with no matching column.
C7_ValidateColumns ==
    lastCall.op = "validate_columns" =>
        LET rule == rules[1]
            n == HeaderMatches
            enough == /\ (rule.required => n >= 1)
                      /\ (rule.min_occur # None => n >= Val(rule.min_occur))
        IN  /\ result = enough
            /\ Len(lastCall.errs) = IF result THEN 0 ELSE 1
            /\ errors = lastCall.errs
            /\ ((rule.required \/ (rule.min_occur # None /\ Val(rule.min_occur) > 0)) /\ n = 0)
                  => (~result /\ Len(lastCall.errs) = 1)

\* a rule with min_occur = 2 that fails over a header with one matching column
C7_Witness ==
    /\ lastCall.op = "validate_columns"
    /\ rules[1].min_occur = Some(2)
    /\ ~rules[1].required
    /\ HeaderMatches = 1
    /\ ~result
    /\ Len(errors) = 1

-----------------------------------------------------------------------------
(* Properties of validate *)

\* the results of the five sub-checks of the last validate call, computed on
\* the rule as it was before the call
SubChecks ==
    LET rule == check_init(lastCall.before[1])
        raw == lastCall.arg
        value == IF rule.case_sensitive THEN normalise_space(raw) ELSE normalise_string(raw)
    IN  <<test_type(rule, value, 0, 0, raw).result,
          test_range(rule, value, 0, 0, raw).result,
          test_pattern(rule, value, 0, 0, raw).result,
          test_enumeration(rule, value, 0, 0, raw).result,
          test_unique(rule, value, 0, 0, raw).result>>

\* C10 as stated: on a non-empty value the result of validate is the AND of
\* the five sub-checks, every failing sub-check delivers an error (at least
\* as many callback invocations as failing sub-checks), and validate never
\* returns false without having reported an error.
C10_Original ==
    (lastCall.op = "validate" /\ ~is_empty(lastCall.arg)) =>
        LET failing == {i \in 1..5 : ~SubChecks[i]}
        IN  /\ result = (failing = {})
            /\ Len(lastCall.errs) >= Cardinality(failing)
            /\ (~result => lastCall.errs # <<>>)

-----------------------------------------------------------------------------
(* Properties of Schema.validate *)

RuleIds == Ascending(DOMAIN rules)

\* the calls of the column phase, of the row phase for the first n rows, and
\* of the finalize phase
ColumnCalls ==
    <<SchemaCall("Schema.validate_columns", 0)>>
        \o [i \in DOMAIN RuleIds |-> [op |-> "validate_columns", rule |-> RuleIds[i], row |-> 0]]

RowCalls(n) ==
    Concat([i \in 1..n |->
        LET possible == Ascending(DOMAIN rules \ impossible)
        IN  <<SchemaCall("Schema.validate_row", i)>>
                \o [k \in DOMAIN possible |->
                       [op |-> "validate_row", rule |-> possible[k], row |-> i]]])

DatasetCalls ==
    <<SchemaCall("Schema.validate_dataset", 0)>>
        \o [i \in DOMAIN RuleIds |-> [op |-> "finish", rule |-> RuleIds[i], row |-> 0]]

\* C1: within one Schema.validate call, validate_columns is applied to every
\* rule before the first row is pulled; then every row of the source is
\* pulled once, in source order, and passed to Schema.validate_row; then
\* finish() is called once on every rule, after the last row.
C1_PhasesInOrder ==
    /\ pc = "idle" => calls = <<>>
    /\ pc = "rows" => calls = ColumnCalls \o RowCalls(nrows)
    /\ pc = "done" => /\ nrows = Len(source)
                      /\ calls = ColumnCalls \o RowCalls(Len(source)) \o DatasetCalls
    /\ \A i \in 1..nrows : source[i].n = i /\ i <= Len(source)

\* a finished run over two rows
C1_Witness ==
    /\ pc = "done"
    /\ Len(source) = 2
    /\ Len(SelectSeq(calls, LAMBDA c : c.op = "validate_row")) = 4
    /\ Len(SelectSeq(calls, LAMBDA c : c.op = "finish")) = 2

\* whether the header satisfies the rule's demands on the columns
HeaderSatisfies(rule) ==
    LET n == Cardinality({i \in DOMAIN columns : match(rule.tag_pattern, columns[i])})
    IN  /\ (rule.required => n >= 1)
        /\ (rule.min_occur # None => n >= Val(rule.min_occur))

CallsOf(op, r) == SelectSeq(calls, LAMBDA c : c.op = op /\ c.rule = r)

\* C2: after the column phase the impossible set holds exactly the rules whose
\* validate_columns returned false; such a rule is never passed a row (it
\* reports nothing but its one column error and accumulates no uniqueness,
\* unique-key, correlation or consistency state), yet its finish() is called
\* in the finalize phase.
C2_ImpossibleRules ==
    /\ pc = "idle" => impossible = {}
    /\ pc # "idle" =>
          impossible = {r \in DOMAIN rules : ~HeaderSatisfies(rules[r])}
    /\ \A r \in impossible :
          /\ CallsOf("validate_row", r) = <<>>
          /\ Len(SelectSeq(errors, LAMBDA e : e.rule = r)) = 1
          /\ \A n \in DOMAIN errors : errors[n].rule = r => errors[n].row = 0
          /\ rules[r].unique_value_map = {}
          /\ rules[r].unique_key_map = {}
          /\ rules[r].correlation_map = <<>>
          /\ rules[r].consistency_map = <<>>
          /\ pc = "done" => Len(CallsOf("finish", r)) = 1
    /\ \A r \in DOMAIN rules \ impossible :
          Len(CallsOf("validate_row", r)) = nrows

\* a finished run in which one rule is impossible while the other was given
\* rows and reported errors for them
C2_Witness ==
    /\ pc = "done"
    /\ impossible = {1}
    /\ nrows = 2
    /\ \E n \in DOMAIN errors : errors[n].rule = 2 /\ errors[n].row = 2

\* C3 as stated: Schema.validate, run with a callback set, returns false if
\* and only if at least one error was delivered to the callback.
C3_Original ==
    (pc = "done" /\ (callback # None \/ \A r \in DOMAIN rules : rules[r].callback # None))
        => (result = FALSE <=> errors # <<>>)


-----------------------------------------------------------------------------
(* Specification: the edit-distance matcher called on strings *)

\* length of the strings given to the matcher
MaxStrLen == 3

\* candidates given to find_closest_match
MaxCandidates == 2

\* the strings over a and b of up to n characters
Strings(n) == SeqsUpTo({"a", "b"}, n)

kitten == <<"k", "i", "t", "t", "e", "n">>
sitting == <<"s", "i", "t", "t", "i", "n", "g">>

EditPairs ==
    (Strings(MaxStrLen) \X Strings(MaxStrLen)) \cup {<<kitten, sitting>>, <<sitting, kitten>>}

\* the allowed values find_closest_match chooses from
CandidatePool ==
    {<<"a">>, <<"a", "b">>, <<"a", "a", "b">>, <<"a", "b", "b">>, <<"b", "a">>,
     <<"b", "b", "b">>}

\* the state after a function of the matcher, called with arg, returned r
FunctionReturned(op, arg, r) ==
    /\ result' = r
    /\ lastCall' = [op |-> op, arg |-> arg, before |-> rules, errs |-> <<>>]
    /\ calls' = Append(calls, [op |-> op, rule |-> 0, row |-> 0])
    /\ pc' = "open"
    /\ UNCHANGED <<rules, callback, impossible, columns, source, nrows, errors>>

\* get_edit_distance(s1, s2)
CallGetEditDistance(s1, s2) ==
    /\ pc = "new"
    /\ FunctionReturned("get_edit_distance", <<s1, s2>>, get_edit_distance(s1, s2))

\* get_common_prefix_len(s1, s2)
CallGetCommonPrefixLen(s1, s2) ==
    /\ pc = "new"
    /\ FunctionReturned("get_common_prefix_len", <<s1, s2>>, get_common_prefix_len(s1, s2))

\* find_closest_match(s, allowed_values)
CallFindClosestMatch(s, allowed_values) ==
    /\ pc = "new"
    /\ FunctionReturned("find_closest_match", <<s, allowed_values>>,
                        find_closest_match(s, allowed_values))

InitMatcher ==
    /\ rules = <<>>
    /\ columns = <<>>
    /\ callback = None
    /\ impossible = {}
    /\ source = <<>>
    /\ pc = "new"
    /\ result = TRUE
    /\ nrows = 0
    /\ errors = <<>>
    /\ calls = <<>>
    /\ lastCall = [op |-> "__init__", arg |-> <<>>, before |-> <<>>, errs |-> <<>>]

NextMatcher ==
    \/ \E p \in EditPairs : CallGetEditDistance(p[1], p[2])
    \/ \E p \in Strings(MaxStrLen) \X Strings(MaxStrLen) : CallGetCommonPrefixLen(p[1], p[2])
    \/ \E s \in Strings(MaxStrLen), allowed \in SeqsUpTo(CandidatePool, MaxCandidates) :
          CallFindClosestMatch(s, allowed)

SpecMatcher == InitMatcher /\ [][NextMatcher]_vars

-----------------------------------------------------------------------------
(* Properties of the matcher *)

\* the Levenshtein distance by its recurrence: the least number of
\* single-character insertions, deletions and substitutions turning a into b
RECURSIVE Levenshtein(_, _)
Levenshtein(a, b) ==
    IF a = <<>> THEN Len(b)
    ELSE IF b = <<>> THEN Len(a)
    ELSE Min3(Levenshtein(Tail(a), b) + 1,
              Levenshtein(a, Tail(b)) + 1,
              Levenshtein(Tail(a), Tail(b)) + (IF Head(a) = Head(b) THEN 0 ELSE 1))

\* the length of the longest common prefix of a and b
CommonPrefixLen(a, b) ==
    CHOOSE n \in 0..Min2(Len(a), Len(b)) :
        /\ \A i \in 1..n : a[i] = b[i]
        /\ (n < Min2(Len(a), Len(b)) => a[n + 1] # b[n + 1])

\* C14: get_edit_distance(s1, s2) is the Levenshtein distance of the two
\* strings, in both argument orders and for empty strings, and
\* get_edit_distance("kitten", "sitting") is 3.
C14_EditDistance ==
    lastCall.op = "get_edit_distance" =>
        /\ result = Levenshtein(lastCall.arg[1], lastCall.arg[2])
        /\ result = get_edit_distance(lastCall.arg[2], lastCall.arg[1])
        /\ (lastCall.arg \in {<<kitten, sitting>>, <<sitting, kitten>>} => result = 3)

C14_Witness ==
    /\ lastCall.op = "get_edit_distance"
    /\ lastCall.arg = <<kitten, sitting>>
    /\ result = 3

\* the candidates of the last find_closest_match call and their distances
MatchDistances ==
    {Levenshtein(lastCall.arg[1], lastCall.arg[2][i]) : i \in DOMAIN lastCall.arg[2]}

\* C12: find_closest_match returns none exactly when every candidate has
\* 2 * distance > len(s); otherwise it returns a candidate within the cutoff
\* whose distance is the least over all candidates.
C12_ClosestMatch ==
    lastCall.op = "find_closest_match" =>
        LET s == lastCall.arg[1]
        IN  /\ result = None <=> \A d \in MatchDistances : 2 * d > Len(s)
            /\ result # None =>
                  /\ Val(result) \in Range(lastCall.arg[2])
                  /\ 2 * Levenshtein(s, Val(result)) <= Len(s)
                  /\ \A d \in MatchDistances : Levenshtein(s, Val(result)) <= d

\* a string of odd length, a candidate at distance len // 2 + 1 rejected and
\* one at distance len // 2 returned
C12_Witness ==
    /\ lastCall.op = "find_closest_match"
    /\ Len(lastCall.arg[1]) = 3
    /\ 2 \in MatchDistances
    /\ result # None
    /\ Levenshtein(lastCall.arg[1], Val(result)) = 1

\* C13 as stated: among the candidates at the least distance (within the
\* cutoff), the one returned has a common prefix with s at least as long as
\* that of every other, whatever the order of the candidates.
C13_Original ==
    (lastCall.op = "find_closest_match" /\ result # None) =>
        LET s == lastCall.arg[1]
            least == Levenshtein(s, Val(result))
        IN  \A c \in Range(lastCall.arg[2]) :
                Levenshtein(s, c) = least =>
                    CommonPrefixLen(s, Val(result)) >= CommonPrefixLen(s, c)

-----------------------------------------------------------------------------
(* Specification: validate of one rule with an enumeration *)

\* calls of validate a caller makes on a rule with an enumeration
MaxEnumCalls == 1

\* enumerations whose members differ from their normalised forms, with close
\* members in both orders, and with two members of one normalised form
EnumLists ==
    {<<<<"A", "B", "B">>, <<"b", "a">>>>,
     <<<<"a", "a", "b">>, <<"a", "b", "b">>>>,
     <<<<"a", "b", "b">>, <<"a", "a", "b">>>>,
     <<<<"a", "b", " ">>, <<"A", "B">>>>}

EnumSetups ==
    {[columns |-> <<Column("#x", {})>>,
      cfg |-> [DefaultCfg(Pattern("#x", {})) EXCEPT
                  !.enum = Some(en), !.case_sensitive = cs, !.callback = Some("cb")]]
        : en \in EnumLists, cs \in BOOLEAN}

EnumValues == Strings(MaxStrLen) \cup {<<"A", "b">>, <<" ", "b", "b">>, vBlank}

InitEnum == \E setup \in EnumSetups : InitRule(setup)

NextEnum == \E raw_value \in EnumValues : CallValidate(raw_value, MaxEnumCalls)

SpecEnum == InitEnum /\ [][NextEnum]_vars

-----------------------------------------------------------------------------
(* Properties of the enumeration check *)

\* the value of the last validate call as validate normalises it
NormalisedFor(rule, v) ==
    IF rule.case_sensitive THEN normalise_space(v) ELSE normalise_string(v)

EnumErrors ==
    SelectSeq(lastCall.errs,
              LAMBDA e : e.message[1] \in {"Must be one of", "Not in allowed values"})

\* C11: for a rule with an enumeration and a non-empty value whose normalised
\* form is not a normalised member, exactly one enumeration error is
\* reported; it carries a suggestion exactly when some normalised member is
\* within edit distance len(value)/2 of the normalised value, and the
\* suggestion is then the original member of a closest normalised member.
C11_EnumSuggestion ==
    (lastCall.op = "validate" /\ ~is_empty(lastCall.arg)
        /\ lastCall.before[1].enum # None) =>
        LET rule == lastCall.before[1]
            enum == Val(rule.enum)
            value == NormalisedFor(rule, lastCall.arg)
            d(i) == Levenshtein(value, NormalisedFor(rule, enum[i]))
            near == {i \in DOMAIN enum : 2 * d(i) <= Len(value)}
        IN  (\A i \in DOMAIN enum : NormalisedFor(rule, enum[i]) # value) =>
                /\ Len(EnumErrors) = 1
                /\ EnumErrors[1].suggested_value # None <=> near # {}
                /\ EnumErrors[1].suggested_value # None =>
                      \E i \in near :
                          /\ enum[i] = Val(EnumErrors[1].suggested_value)
                          /\ \A j \in DOMAIN enum : d(i) <= d(j)

\* a value close to a member that differs from its normalised form is
\* reported with the original member as suggestion
C11_Witness ==
    /\ lastCall.op = "validate"
    /\ Len(EnumErrors) = 1
    /\ EnumErrors[1].suggested_value = Some(<<"A", "B", "B">>)

-----------------------------------------------------------------------------
(* Properties of the range check and of empty values *)

\* the last call was validate on a rule whose only constraint is its range
RangeOnly ==
    /\ lastCall.op = "validate"
    /\ LET rule == lastCall.before[1]
       IN  /\ rule.min_value # None \/ rule.max_value # None
           /\ rule.data_type = None /\ rule.regex = None /\ rule.enum = None
           /\ ~rule.unique

\* C15 as stated: with a range set, validate on a non-empty value returns
\* false exactly when the value is not a number, or is below min_value, or is
\* above max_value; a value above max_value is reported with a message saying
\* it is greater than max_value, a value below min_value with a message
\* naming min_value ("15" with min 0 and max 10 fails with a "greater than
\* 10" message, "5" passes).
C15_Original ==
    (RangeOnly /\ ~is_empty(lastCall.arg)) =>
        LET rule == lastCall.before[1]
            value == lastCall.arg
            below == is_number(value) /\ rule.min_value # None
                     /\ float(value) < Val(rule.min_value)
            above == is_number(value) /\ rule.max_value # None
                     /\ float(value) > Val(rule.max_value)
        IN  /\ result = FALSE <=> (~is_number(value) \/ below \/ above)
            /\ above => \E i \in DOMAIN lastCall.errs :
                  lastCall.errs[i].message = <<"Value is greater than", Val(rule.max_value)>>
            /\ below => \E i \in DOMAIN lastCall.errs :
                  lastCall.errs[i].message = <<"Value is less than", Val(rule.min_value)>>
            /\ (rule.min_value = Some(0) /\ rule.max_value = Some(10) /\ value = v5)
                  => result = TRUE

\* the accumulators of a rule
Accumulators(rule) ==
    <<rule.unique_value_map, rule.unique_key_map, rule.correlation_map,
      rule.consistency_map, rule.suggestion_map>>

\* C16: validate on an empty value returns true whatever the constraints of
\* the rule, reports no error and leaves every accumulator of the rule as it
\* was.
C16_EmptyValuePasses ==
    (lastCall.op = "validate" /\ is_empty(lastCall.arg)) =>
        /\ result = TRUE
        /\ lastCall.errs = <<>>
        /\ Accumulators(rules[1]) = Accumulators(lastCall.before[1])

\* a blank value given to a rule with a datatype, a range, a pattern, an
\* enumeration and uniqueness that has already recorded a value
C16_Witness ==
    /\ lastCall.op = "validate"
    /\ lastCall.arg = vBlank
    /\ rules[1].data_type # None /\ rules[1].min_value # None /\ rules[1].regex # None
    /\ rules[1].enum # None /\ rules[1].unique
    /\ rules[1].unique_value_map # {}
    /\ result = TRUE

-----------------------------------------------------------------------------
(* Specification: validate_row of one rule with cardinality bounds *)

\* rows a caller feeds to a rule with cardinality bounds
MaxCardRows == 1

\* rules on #id, required or not, with min_occur and max_occur unset or set,
\* over a header with two matching columns and over one with a single one
CardinalitySetups ==
    {[columns |-> cols,
      cfg |-> [DefaultCfg(Pattern("#id", {})) EXCEPT
                  !.required = req, !.min_occur = mo, !.max_occur = xo,
                  !.callback = Some("cb")]]
        : cols \in {<<IdColumn, IdAltColumn>>, <<OrgColumn, IdColumn>>},
          req \in BOOLEAN,
          mo \in {None, Some(1), Some(2)},
          xo \in {None, Some(0), Some(1)}}

CardinalityRows == {<<v, w>> : v \in {<<>>, vBlank, v1}, w \in {<<>>, vBlank, v1}}

InitCardinality == \E setup \in CardinalitySetups : InitRule(setup)

NextCardinality == \E values \in CardinalityRows : CallValidateRow(values, MaxCardRows)

SpecCardinality == InitCardinality /\ [][NextCardinality]_vars

-----------------------------------------------------------------------------
(* Properties of the cardinality checks *)

\* the errors of the last call whose message starts with the text
ErrorsSaying(text) == SelectSeq(lastCall.errs, LAMBDA e : e.message[1] = text)

\* the number of non-empty values of the row in columns matching the pattern
NonEmptyMatches(row, pattern) ==
    Cardinality({i \in DOMAIN row.values :
                    match(pattern, row.columns[i]) /\ ~is_empty(row.values[i])})

\* C17 as stated: with n the number of non-empty values in matching columns,
\* validate_row reports exactly one error for each violated bound (required
\* and n < 1; min_occur set and n < min_occur; max_occur set and
\* n > max_occur), none for a satisfied bound, and returns false whenever a
\* bound is violated.
C17_Original ==
    lastCall.op = "validate_row" =>
        LET rule == lastCall.before[1]
            n == NonEmptyMatches(lastCall.arg, rule.tag_pattern)
            needRequired == rule.required /\ n < 1
            needMin == rule.min_occur # None /\ n < Val(rule.min_occur)
            needMax == rule.max_occur # None /\ n > Val(rule.max_occur)
        IN  /\ Len(ErrorsSaying("A value was required")) = (IF needRequired THEN 1 ELSE 0)
            /\ Len(ErrorsSaying("Expected at least")) = (IF needMin THEN 1 ELSE 0)
            /\ Len(ErrorsSaying("Expected at most")) = (IF needMax THEN 1 ELSE 0)
            /\ (needRequired \/ needMin \/ needMax) => result = FALSE

-----------------------------------------------------------------------------
(* Specification: one rule tracking unique keys, correlations and datatypes *)

\* rows a caller feeds to a rule that tracks rows
MaxTrackRows == 2

\* the rule on #id over the header (#org, #id, #id+alt), with or without a
\* unique key on #org, a correlation key on #org and consistent_datatypes
TrackingSetups ==
    {[columns |-> <<OrgColumn, IdColumn, IdAltColumn>>,
      cfg |-> [DefaultCfg(Pattern("#id", {})) EXCEPT
                  !.unique_key = uk, !.correlation_key = ck,
                  !.consistent_datatypes = cd, !.callback = Some("cb")]]
        : uk \in {None, Some(<<Pattern("#org", {})>>)},
          ck \in {None, Some(<<Pattern("#org", {})>>)},
          cd \in BOOLEAN}

TrackingRows ==
    {<<o, p[1], p[2]>> : o \in {va, vA, v1},
                         p \in {<<v1, <<>> >>, <<v1, va>>, <<v1, v1>>, << <<>>, va>>}}

InitTracking == \E setup \in TrackingSetups : InitRule(setup)

NextTracking ==
    \/ CallValidateColumns
    \/ \E values \in TrackingRows : CallValidateRow(values, MaxTrackRows)
    \/ \E raw_value \in {v1, va} : CallValidate(raw_value, MaxTrackRows)
    \/ CallFinish

SpecTracking == InitTracking /\ [][NextTracking]_vars

-----------------------------------------------------------------------------
(* Properties of the tracking of rows *)

\* the composite key of a row for a rule with a unique key: the normalised
\* values of the columns matching the key's patterns or the rule's own
CompositeKey(rule, row) == key(row, Append(Val(rule.unique_key), rule.tag_pattern))

\* C18: for a rule with unique_key set, validate_row reports a duplicate-row
\* error for a row exactly when an earlier row of the stream had the same
\* composite key, and then exactly once; the first row with a key is not
\* reported.
C18_DuplicateRows ==
    (lastCall.op = "validate_row" /\ lastCall.before[1].unique_key # None) =>
        LET rule == lastCall.before[1]
            earlier == {i \in 1..(Len(source) - 1) :
                          CompositeKey(rule, source[i]) = CompositeKey(rule, lastCall.arg)}
        IN  Len(ErrorsSaying("Duplicate row according to tag patterns"))
                = (IF earlier = {} THEN 0 ELSE 1)

\* a row repeating the key of the row before it, in another letter case
C18_Witness ==
    /\ lastCall.op = "validate_row"
    /\ Len(source) = 2
    /\ source[1].values # source[2].values
    /\ Len(ErrorsSaying("Duplicate row according to tag patterns")) = 1

\* the entries the last validate_row call added to the three maps
AddedCorrelations == Len(rules[1].correlation_map) - Len(lastCall.before[1].correlation_map)
AddedConsistency == Len(rules[1].consistency_map) - Len(lastCall.before[1].consistency_map)
AddedUniqueKeys ==
    Cardinality(rules[1].unique_key_map) - Cardinality(lastCall.before[1].unique_key_map)

\* C19 as stated: one validate_row call adds at most one entry to the
\* correlation map, at most one to the consistency map and at most one to
\* the unique-key set, however many columns of the row match.
C19_Original ==
    lastCall.op = "validate_row" =>
        /\ AddedCorrelations <= 1
        /\ AddedConsistency <= 1
        /\ AddedUniqueKeys <= 1

\* C19 (amended): one validate_row call adds at most one entry to the
\* correlation map and at most one to the unique-key set, however many
\* columns match; to the consistency map of a rule with consistent_datatypes
\* it adds one entry for every matching column that holds a non-empty value.
C19_EntriesPerRow ==
    lastCall.op = "validate_row" =>
        /\ AddedCorrelations <= 1
        /\ AddedUniqueKeys <= 1
        /\ AddedConsistency =
              (IF rules[1].consistent_datatypes
               THEN NonEmptyMatches(lastCall.arg, rules[1].tag_pattern) ELSE 0)

\* a row with two matching non-empty values: two consistency entries, one
\* correlation entry, one unique key
C19_Witness ==
    /\ lastCall.op = "validate_row"
    /\ AddedConsistency = 2
    /\ AddedCorrelations = 1
    /\ AddedUniqueKeys = 1

\* the errors of the deferred checks among errs
DeferredErrors(errs) ==
    SelectSeq(errs, LAMBDA e : e.message[1] \in {"wrong value for related column(s)",
                                                 "inconsistent datatype"})

\* C20: correlation errors and inconsistent-datatype errors are delivered by
\* finish() only: none during validate_columns, validate or validate_row, so
\* none at all as long as the caller has not called finish().
C20_DeferredOnlyAtFinish ==
    /\ lastCall.op \in {"validate_columns", "validate", "validate_row"}
          => DeferredErrors(lastCall.errs) = <<>>
    /\ pc # "finished" => DeferredErrors(errors) = <<>>

\* the caller has stopped after rows whose deferred checks would fail, with
\* a correlation error and a datatype error pending and nothing reported
C20_Witness ==
    /\ pc = "open"
    /\ nrows = MaxTrackRows
    /\ \E i \in DOMAIN finish(rules[1]).errs :
          finish(rules[1]).errs[i].message[1] = "inconsistent datatype"
    /\ \E i \in DOMAIN finish(rules[1]).errs :
          finish(rules[1]).errs[i].message[1] = "wrong value for related column(s)"
    /\ DeferredErrors(errors) = <<>>

-----------------------------------------------------------------------------
(* Specification: the life cycle of one rule: init, use, finish and finish again *)

\* method calls a caller makes on the rule
MaxLifecycleCalls == 4

\* the rule on #id over the header (#org, #id, #id+alt) with the allowed
\* values A and 1 and a correlation key on #org, with or without a unique key
\* on #org and consistent_datatypes
LifecycleSetups ==
    {[columns |-> <<OrgColumn, IdColumn, IdAltColumn>>,
      cfg |-> [DefaultCfg(Pattern("#id", {})) EXCEPT
                  !.enum = Some(<<vA, v1>>),
                  !.unique_key = uk,
                  !.correlation_key = Some(<<Pattern("#org", {})>>),
                  !.consistent_datatypes = cd, !.callback = Some("cb")]]
        : uk \in {None, Some(<<Pattern("#org", {})>>)}, cd \in BOOLEAN}

LifecycleRows == {<<va, v1, v1>>, <<v1, v1, va>>, <<va, vab, <<>> >>}

InitLifecycle == \E setup \in LifecycleSetups : InitRule(setup)

NextLifecycle ==
    \/ CallInit(MaxLifecycleCalls)
    \/ CallValidateColumns
    \/ \E values \in LifecycleRows : CallValidateRow(values, MaxTrackRows)
    \/ CallValidate(vab, MaxLifecycleCalls)
    \/ CallFinish
    \/ CallFinishAgain(MaxLifecycleCalls + 1)

SpecLifecycle == InitLifecycle /\ [][NextLifecycle]_vars

-----------------------------------------------------------------------------
(* Properties of finish() and init() called more than once *)

\* the accumulated state of a rule that finish() reads
Tracked(rule) ==
    <<rule.correlation_map, rule.consistency_map, rule.unique_value_map,
      rule.unique_key_map>>

\* C21: finish() leaves the correlation map, the consistency map, the
\* uniqueness set and the unique-key set as they were, so that a second
\* finish() with no row in between returns the same boolean and delivers the
\* same errors (message, value, row, column, suggestion) once more.
C21_FinishRepeats ==
    /\ [](lastCall.op = "finish" => Tracked(rules[1]) = Tracked(lastCall.before[1]))
    /\ [][pc = "finished"
            => /\ result' = result
               /\ lastCall'.errs = lastCall.errs
               /\ errors' = errors \o lastCall.errs]_vars

\* finish() has run twice on a rule with a correlation error and a datatype
\* error pending, and each run has delivered both
C21_Witness ==
    /\ Len(calls) >= 2
    /\ calls[Len(calls)].op = "finish"
    /\ calls[Len(calls) - 1].op = "finish"
    /\ \E i \in DOMAIN lastCall.errs : lastCall.errs[i].message[1] = "inconsistent datatype"
    /\ \E i \in DOMAIN lastCall.errs :
          lastCall.errs[i].message[1] = "wrong value for related column(s)"
    /\ Len(DeferredErrors(errors)) = 2 * Len(lastCall.errs)

\* what init() computes: the enum lookup map and the two parsed key lists
Initialised(rule) == <<rule.enum_map, rule.unique_key, rule.correlation_key>>

\* the number of times the pattern occurs in the list
Occurrences(patterns, pattern) ==
    Cardinality({i \in DOMAIN patterns : patterns[i] = pattern})

\* C22 (as stated): a second init() leaves the enum lookup map, unique_key
\* and correlation_key as the first call left them, the rule's own tag
\* pattern occurring in unique_key exactly once; validate_columns,
\* validate_row and validate run init() only on a rule not yet initialised.
C22_Original ==
    /\ (lastCall.op = "init" /\ lastCall.before[1].initialised)
          => /\ Initialised(rules[1]) = Initialised(lastCall.before[1])
             /\ rules[1].unique_key # None
                   => Occurrences(Val(rules[1].unique_key), rules[1].tag_pattern) = 1
    /\ lastCall.op \in {"validate_columns", "validate_row", "validate"}
          => /\ rules[1].initialised
             /\ Initialised(rules[1]) =
                   IF lastCall.before[1].initialised
                   THEN Initialised(lastCall.before[1])
                   ELSE Initialised(init(lastCall.before[1]))

-----------------------------------------------------------------------------
(* Properties of the Schema's handling of callbacks and of errors *)

SchemaMethods == {"Schema.validate_columns", "Schema.validate_row", "Schema.validate_dataset"}

\* C23: when a Schema method returns, every rule has the callback it had
\* before the call; the errors of the call went to the Schema's callback if
\* the Schema has one, and to the reporting rule's own callback if not.
C23_CallbackRestored ==
    lastCall.op \in SchemaMethods
       => /\ \A i \in DOMAIN rules : rules[i].callback = lastCall.before[i].callback
          /\ \A k \in DOMAIN lastCall.errs :
                lastCall.errs[k].cb =
                   IF callback # None THEN Val(callback)
                   ELSE Val(lastCall.before[lastCall.errs[k].rule].callback)

\* a Schema with a callback of its own has validated a row, an error of a rule
\* went to the Schema's callback, and the rule is left with its own callback
C23_Witness ==
    /\ lastCall.op = "Schema.validate_row"
    /\ callback = Some("schema_cb")
    /\ \E k \in DOMAIN lastCall.errs :
          /\ lastCall.errs[k].cb = "schema_cb"
          /\ rules[lastCall.errs[k].rule].callback = Some("rule_cb")

\* the number of times the call was made
TimesCalled(call) == Cardinality({k \in DOMAIN calls : calls[k] = call})

\* C24: validation never stops at an error: every row pulled so far has been
\* given exactly once to every rule not marked impossible, whatever the
\* results of the earlier rules and rows were, and the run ends only after
\* every row was validated and finish() was called on every rule.
C24_Exhaustive ==
    /\ \A n \in 1..nrows :
          /\ TimesCalled(SchemaCall("Schema.validate_row", n)) = 1
          /\ \A i \in DOMAIN rules :
                TimesCalled(Call("validate_row", rules[i], n)) =
                   IF i \in impossible THEN 0 ELSE 1
    /\ pc = "done"
          => /\ nrows = Len(source)
             /\ \A i \in DOMAIN rules : TimesCalled(Call("finish", rules[i], 0)) = 1

\* the first rule has failed on the first row, and yet the second rule was
\* applied to that row, both rules to the second row, and finish() to both
C24_Witness ==
    /\ pc = "done"
    /\ Len(source) = 2
    /\ impossible = {}
    /\ \E k \in DOMAIN errors : errors[k].rule = 1 /\ errors[k].row = 1
    /\ \E k \in DOMAIN errors : errors[k].rule = 2 /\ errors[k].row = 2
    /\ ~result

\* a second Schema, freshly constructed with rules equal to those of the
\* Schema of the run, validating the same source
SecondRun ==
    Schema_validate(Schema([i \in DOMAIN rules |-> SchemaRule_again(rules[i])], callback),
                    columns, source)

-----------------------------------------------------------------------------
(* Specification: Schema.parse on a schema source *)

\* rows of the schema source
MaxSchemaRows == 2

\* a schema row for #a with no cell but the tag
SchemaRow ==
    [tag |-> Some(Pattern("#a", {})), datatype |-> None, required |-> None,
     unique |-> None, case_sensitive |-> None, consistent_datatypes |-> None]

\* texts of a boolean cell: the ten recognised words, some in capitals, an
\* empty cell, "1" and "x"
BooleanCells ==
    {Some(<<>>), Some(<<"0">>), Some(<<"n">>), Some(<<"n", "o">>), Some(<<"f">>),
     Some(<<"f", "a", "l", "s", "e">>), Some(<<"y">>), Some(<<"y", "e", "s">>),
     Some(<<"t">>), Some(<<"t", "r", "u", "e">>), Some(<<"N", "O">>),
     Some(<<"T", "r", "u", "e">>), Some(<<"1">>), Some(<<"x">>)}

\* texts of the datatype cell: empty, url, URL, "u rl", and the unknown uri
DatatypeCells ==
    {Some(<<>>), Some(<<"u", "r", "l">>), Some(<<"U", "R", "L">>),
     Some(<<"u", " ", "r", "l">>), Some(<<"u", "r", "i">>)}

ParseRows ==
    {SchemaRow, [SchemaRow EXCEPT !.tag = None, !.required = Some(<<"x">>)]}
    \cup {[SchemaRow EXCEPT !.required = b] : b \in BooleanCells}
    \cup {[SchemaRow EXCEPT !.unique = b] : b \in {Some(<<"y">>), Some(<<"1">>)}}
    \cup {[SchemaRow EXCEPT !.case_sensitive = b] : b \in {Some(<<"y">>), Some(<<"1">>)}}
    \cup {[SchemaRow EXCEPT !.consistent_datatypes = b] : b \in {Some(<<"y">>), Some(<<"1">>)}}
    \cup {[SchemaRow EXCEPT !.datatype = d] : d \in DatatypeCells}

InitParse ==
    /\ source \in SeqsUpTo(ParseRows, MaxSchemaRows)
    /\ callback \in {None, Some("schema_cb")}
    /\ rules = <<>>
    /\ columns = <<>>
    /\ impossible = {}
    /\ pc = "new"
    /\ result = TRUE
    /\ nrows = 0
    /\ errors = <<>>
    /\ calls = <<>>
    /\ lastCall = [op |-> "__init__", arg |-> <<>>, before |-> <<>>, errs |-> <<>>]

NextParse == CallParse

SpecParse == InitParse /\ [][NextParse]_vars

-----------------------------------------------------------------------------
(* Properties of Schema.parse *)

\* the rows of the source that have a tag, in order
TaggedRows == SelectSeq(source, LAMBDA row : row.tag # None)

\* a datatype cell that holds a name, and the name is none of the six
UnknownDatatype(cell) ==
    /\ cell # None
    /\ Val(cell) # <<>>
    /\ SelectSeq(lower(Val(cell)), IsTypeChar) \notin DATATYPES

\* C26 (as stated): Schema.parse raises, and returns no Schema, when a schema
\* row names an unknown datatype; it never returns a rule whose datatype
\* constraint was dropped.
C26_Original ==
    /\ (pc # "new" /\ \E n \in DOMAIN TaggedRows : UnknownDatatype(TaggedRows[n].datatype))
          => pc = "raised"
    /\ pc = "parsed"
          => \A n \in DOMAIN rules :
                (TaggedRows[n].datatype # None /\ Val(TaggedRows[n].datatype) # <<>>)
                   => rules[n].data_type # None

\* the words the schema format gives a meaning
FalseWords ==
    {<<"0">>, <<"n">>, <<"n", "o">>, <<"f">>, <<"f", "a", "l", "s", "e">>, <<"N", "O">>}
TrueWords ==
    {<<"y">>, <<"y", "e", "s">>, <<"t">>, <<"t", "r", "u", "e">>, <<"T", "r", "u", "e">>}

\* what a boolean cell means: "false", "true" or "error"
Meaning(cell) ==
    IF cell = None \/ Val(cell) = <<>> \/ Val(cell) \in FalseWords THEN "false"
    ELSE IF Val(cell) \in TrueWords THEN "true"
    ELSE "error"

\* the boolean cells of a schema row, and the same fields of a rule
BooleanFields(r) == <<r.required, r.unique, r.case_sensitive, r.consistent_datatypes>>

\* C27: every boolean cell of a schema row that is absent, empty or one of
\* 0/n/no/f/false (in any letter case) gives false and one of y/yes/t/true
\* gives true in the rule's field; any other text, "1" included, makes
\* Schema.parse raise, and then no Schema is returned.
C27_BooleanFields ==
    pc # "new"
       => IF \E n \in DOMAIN TaggedRows, f \in 1..4 :
                Meaning(BooleanFields(TaggedRows[n])[f]) = "error"
          THEN /\ pc = "raised"
               /\ rules = <<>>
               /\ lastCall.errs # <<>>
               /\ lastCall.errs[1][1] = "Unrecognised true/false value"
          ELSE /\ pc = "parsed"
               /\ Len(rules) = Len(TaggedRows)
               /\ \A n \in DOMAIN rules, f \in 1..4 :
                     BooleanFields(rules[n])[f]
                        = (Meaning(BooleanFields(TaggedRows[n])[f]) = "true")

\* the parse of a source whose first row is in order and whose second row
\* has "1" in a boolean cell has raised, naming the text
C27_Witness ==
    /\ pc = "raised"
    /\ Len(TaggedRows) = 2
    /\ Meaning(TaggedRows[1].required) = "true"
    /\ lastCall.errs = << <<"Unrecognised true/false value", <<"1">> >> >>

-----------------------------------------------------------------------------
(* Properties of the location of errors *)

\* the errors of the per-value sub-checks among those of a validate_row call:
\* the ones that carry a value
ValueErrors == SelectSeq(lastCall.errs, LAMBDA e : e.value # None)

\* C28 (as stated): an error of a per-value sub-check reported by validate_row
\* names the column of the row that holds the offending value (as given or
\* normalised), a column that matches the rule's tag pattern, wherever in the
\* row the matching columns are.
C28_Original ==
    lastCall.op = "validate_row"
       => \A k \in DOMAIN ValueErrors :
             /\ ValueErrors[k].column \in DOMAIN columns
             /\ match(rules[1].tag_pattern, columns[ValueErrors[k].column])
             /\ Val(ValueErrors[k].value) \in
                   {lastCall.arg.values[ValueErrors[k].column],
                    NormalisedFor(rules[1], lastCall.arg.values[ValueErrors[k].column])}

-----------------------------------------------------------------------------
(* Properties of get_common_prefix_len *)

\* C29 (as stated): get_common_prefix_len(s1, s2) is the length of the longest
\* common prefix of the two strings: 0 when the first characters differ or a
\* string is empty, the length of the shorter string when it is a prefix of
\* the other (n for equal strings of length n).
C29_Original ==
    lastCall.op = "get_common_prefix_len"
       => /\ result = CommonPrefixLen(lastCall.arg[1], lastCall.arg[2])
          /\ lastCall.arg[1] = lastCall.arg[2] => result = Len(lastCall.arg[1])

-----------------------------------------------------------------------------
(* Specification: validate of one rule with a pattern *)

\* calls of validate a caller makes on a rule with a pattern
MaxPatternCalls == 1

\* rules on #x with a pattern that is a literal text, in small letters, in
\* capitals or mixed, case-sensitive or not
PatternSetups ==
    {[columns |-> <<Column("#x", {})>>,
      cfg |-> [DefaultCfg(Pattern("#x", {})) EXCEPT
                  !.regex = Some(re), !.case_sensitive = cs, !.callback = Some("cb")]]
        : re \in {<<"a">>, <<"A">>, <<"a", "b">>, <<"A", "b">>}, cs \in BOOLEAN}

PatternValues ==
    Strings(MaxStrLen) \cup {vA, <<"B">>, <<"A", "b">>, <<"a", "B">>, <<"A", "B">>, <<"B", "a">>,
                     vSpaceA, vBlank}

InitPattern == \E setup \in PatternSetups : InitRule(setup)

NextPattern == \E raw_value \in PatternValues : CallValidate(raw_value, MaxPatternCalls)

SpecPattern == InitPattern /\ [][NextPattern]_vars

-----------------------------------------------------------------------------
(* Properties of the pattern check *)

\* the text starts with the prefix
StartsWith(text, prefix) ==
    /\ Len(text) >= Len(prefix)
    /\ SubSeq(text, 1, Len(prefix)) = prefix

\* the value, white space normalised, is not matched by the pattern but
\* differs only in letter case from a text the pattern matches
CaseVariant(v, regex) ==
    /\ ~StartsWith(normalise_space(v), regex)
    /\ StartsWith(lower(normalise_space(v)), lower(regex))

\* C30 (as stated): the pattern check is case-sensitive exactly when the rule
\* is: a value that differs only in letter case from a text the pattern
\* matches fails and is reported under case_sensitive=true, and passes under
\* case_sensitive=false.
C30_Original ==
    (lastCall.op = "validate" /\ rules[1].regex # None
        /\ CaseVariant(lastCall.arg, Val(rules[1].regex)))
       => IF rules[1].case_sensitive
          THEN /\ ~result
               /\ \E k \in DOMAIN lastCall.errs :
                     lastCall.errs[k].message[1] = "Failed to match pattern"
          ELSE result /\ lastCall.errs = <<>>

-----------------------------------------------------------------------------
(* Specification: Schema.validate called again on the same Schema *)

\* calls of Schema.validate on one Schema
MaxRuns == 2

\* rows of the source of each run
MaxRerunRows == 2

\* the calls of Schema.validate begun so far
RunsStarted == Len(SelectSeq(calls, LAMBDA c : c.op = "Schema.validate_columns"))

\* the rows of each run; source holds the rows of every run so far
RunLength == Len(source) \div RunsStarted

\* variant: Schema.validate called again on a Schema and rules constructed anew
ValidateAgainFresh(max) ==
    /\ pc = "done"
    /\ RunsStarted < max
    /\ \E cols \in {<<TagA, TagB>>, <<TagA, TagA>>} :
          /\ columns' = cols
          /\ source' = source \o [i \in 1..RunLength |-> Row(cols, source[i].values, i)]
    /\ pc' = "idle"
    /\ result' = TRUE
    /\ rules' = [i \in DOMAIN rules |-> SchemaRule_again(rules[i])]
    /\ impossible' = {}
    /\ UNCHANGED <<callback, nrows, errors, calls, lastCall>>

\* Schema.validate(source) called again on the Schema that has finished a
\* run, the source holding the same values under a header of the caller's
\* choice: result = True, and the phases follow
ValidateAgain(max) ==
    /\ pc = "done"
    /\ RunsStarted < max
    /\ \E cols \in {<<TagA, TagB>>, <<TagA, TagA>>} :
          /\ columns' = cols
          /\ source' = source \o [i \in 1..RunLength |-> Row(cols, source[i].values, i)]
    /\ pc' = "idle"
    /\ result' = TRUE
    /\ UNCHANGED <<rules, callback, impossible, nrows, errors, calls, lastCall>>

\* a unique rule on #a with a rule on #b that is required, and that tracks
\* datatypes or correlates #b with #a
RerunCfgs ==
    {[DefaultCfg(Pattern("#b", {})) EXCEPT !.required = TRUE],
     [DefaultCfg(Pattern("#b", {})) EXCEPT !.required = TRUE, !.consistent_datatypes = TRUE],
     [DefaultCfg(Pattern("#b", {})) EXCEPT
         !.required = TRUE, !.correlation_key = Some(<<Pattern("#a", {})>>)]}

RerunRows == {<<v1, v1>>, <<v1, va>>, <<vA, <<>> >>}

InitRerun ==
    /\ \E c2 \in RerunCfgs :
          rules = <<SchemaRule(1, [DefaultCfg(Pattern("#a", {})) EXCEPT
                                      !.unique = TRUE, !.callback = Some("rule_cb")]),
                    SchemaRule(2, [c2 EXCEPT !.callback = Some("rule_cb")])>>
    /\ callback = Some("schema_cb")
    /\ columns \in {<<TagA, TagB>>, <<TagA, TagA>>}
    /\ \E rows \in SeqsUpTo(RerunRows, MaxRerunRows) :
          source = [i \in DOMAIN rows |-> Row(columns, rows[i], i)]
    /\ impossible = {}
    /\ pc = "idle"
    /\ result = TRUE
    /\ nrows = 0
    /\ errors = <<>>
    /\ calls = <<>>
    /\ lastCall = [op |-> "__init__", arg |-> <<>>, before |-> <<>>, errs |-> <<>>]

NextRerun ==
    \/ ValidateColumnsPhase
    \/ ValidateRowPhase
    \/ ValidateDatasetPhase
    \/ ValidateAgain(MaxRuns)

SpecRerun == InitRerun /\ [][NextRerun]_vars

-----------------------------------------------------------------------------
(* Properties of the accumulated state over more than one run *)

\* s is an initial part of t
IsPrefix(s, t) == Len(s) <= Len(t) /\ SubSeq(t, 1, Len(s)) = s

\* the non-empty values of the row's columns that match the pattern
NonEmptyValues(row, pattern) ==
    SelectSeq(get_all(row, pattern), LAMBDA v : ~is_empty(v))

\* the rows of the first run, and the values a unique rule recorded from them
FirstRunSeen(rule) ==
    UNION {{normalise(NormalisedFor(rule, v)) :
                v \in Range(NonEmptyValues(source[n], rule.tag_pattern))}
             : n \in 1..RunLength}

\* the duplicate-value errors of the rule for the value among the errors of the last call
DuplicatesOf(rule, v) ==
    SelectSeq(lastCall.errs, LAMBDA e : /\ e.rule = rule.id
                                        /\ e.message[1] = "Found duplicate value"
                                        /\ e.value = Some(v))

\* C31: no call resets accumulated state: every step leaves each rule's
\* uniqueness set, unique-key set, correlation map and consistency map and the
\* Schema's impossible set at least what they were.  So in a second
\* Schema.validate on the same Schema a unique rule reports as a duplicate
\* every non-empty value that it saw in the first run, and a rule marked
\* impossible is passed over in the row phase whatever the second header is.
C31_StateOnlyGrows ==
    /\ [][/\ impossible \subseteq impossible'
          /\ \A i \in DOMAIN rules :
                /\ rules[i].unique_value_map \subseteq rules'[i].unique_value_map
                /\ rules[i].unique_key_map \subseteq rules'[i].unique_key_map
                /\ IsPrefix(rules[i].correlation_map, rules'[i].correlation_map)
                /\ IsPrefix(rules[i].consistency_map, rules'[i].consistency_map)]_vars
    /\ []((lastCall.op = "Schema.validate_row" /\ RunsStarted = 2 /\ pc = "rows")
            => /\ \A i \in DOMAIN rules \ impossible :
                     rules[i].unique
                        => \A v \in Range(NonEmptyValues(source[nrows], rules[i].tag_pattern)) :
                              normalise(NormalisedFor(rules[i], v)) \in FirstRunSeen(rules[i])
                                 => DuplicatesOf(rules[i], v) # <<>>
               /\ \A i \in impossible :
                     /\ rules[i] = lastCall.before[i]
                     /\ \A k \in DOMAIN lastCall.errs : lastCall.errs[k].rule # i)

\* in the second run, under a header that satisfies the rule marked
\* impossible in the first, a row without a value for that rule has drawn
\* nothing from it, while the unique rule has reported the row's value, seen
\* in the first run, as a duplicate
C31_Witness ==
    /\ lastCall.op = "Schema.validate_row"
    /\ RunsStarted = 2
    /\ pc = "rows"
    /\ impossible = {2}
    /\ HeaderSatisfies(rules[2])
    /\ is_empty(source[nrows].values[2])
    /\ Len(lastCall.errs) = 1
    /\ DuplicatesOf(rules[1], vA) # <<>>

-----------------------------------------------------------------------------
(* Properties of the consistency check on equally frequent datatypes *)

\* the position in the stream of the first entry recorded with the entry's
\* hashtag and type
FirstOfType(m, i) == CHOOSE j \in SameType(m, m[i]) : \A k \in SameType(m, m[i]) : j <= k

\* the entries whose type is the most frequent, or one of the most frequent,
\* of their hashtag
MostFrequent(m, i) ==
    {j \in SameHashtag(m, m[i]) :
        \A k \in SameHashtag(m, m[i]) :
            Cardinality(SameType(m, m[k])) <= Cardinality(SameType(m, m[j]))}

\* C32: when several datatypes of a hashtag are equally the most frequent, the
\* one among them that was recorded first in the stream is the expected type:
\* its occurrences are not reported, and every occurrence of every other type,
\* the other most frequent ones included, is reported once, with it as expected.
C32_TiedDatatypes ==
    pc = "finished" =>
        LET m == rules[1].consistency_map
            reports(i) == ErrorsAt(ConsistencyErrors, m[i].row, m[i].column)
        IN  \A i \in DOMAIN m :
               Cardinality({m[j].type : j \in MostFrequent(m, i)}) >= 2
                  => \E t \in MostFrequent(m, i) :
                        /\ \A j \in MostFrequent(m, i) : FirstOfType(m, t) <= FirstOfType(m, j)
                        /\ IF m[i].type = m[t].type THEN reports(i) = <<>>
                           ELSE /\ Len(reports(i)) = 1
                                /\ reports(i)[1].message
                                     = <<"inconsistent datatype", m[i].type, m[t].type>>

\* three rows have given one hashtag three types, once each, text first:
\* text is expected, and the number and the date are reported
C32_Witness ==
    /\ pc = "finished"
    /\ LET m == rules[1].consistency_map
       IN  /\ Len(m) = 3
           /\ m[1].type = "text"
           /\ Cardinality(MostFrequent(m, 1)) = 3
           /\ Cardinality({m[j].type : j \in DOMAIN m}) = 3
    /\ Len(ConsistencyErrors) = 2
    /\ \A n \in DOMAIN ConsistencyErrors : ConsistencyErrors[n].message[3] = "text"
-----------------------------------------------------------------------------
(* hxl.converters.Tagger (hxl/filters/tag.py holds the same class): hashtags   *)
(* added to untagged rows.  A raw row is a sequence of cells, a tag row the    *)
(* sequence of tag specs (strings, '' where no spec matched).                  *)

\* range(0, 25) in _add_tags
HeaderSearchRows == 25

\* Python's "sub in value" on strings
Contains(value, sub) ==
    \E i \in 0..(Len(value) - Len(sub)) : SubSeq(value, i + 1, i + Len(sub)) = sub

\* Tagger.__init__
Tagger(input, specs) ==
    [specs |-> [i \in DOMAIN specs |-> <<normalise_string(specs[i][1]), specs[i][2]>>],
     input |-> input,
     _cache |-> <<>>,
     _found_tags |-> FALSE]

\* the inner loop of _try_tag_row: the specs from position j on matching value
MatchingSpecs(specs, value) == {j \in DOMAIN specs : Contains(value, specs[j][1])}

\* the tag appended for one cell: that of the first matching spec, or ''
tag_of(specs, value) ==
    IF MatchingSpecs(specs, value) = {} THEN <<>>
    ELSE specs[CHOOSE j \in MatchingSpecs(specs, value) :
                   \A k \in MatchingSpecs(specs, value) : j <= k][2]

tags_of(specs, raw_row) ==
    [i \in DOMAIN raw_row |-> tag_of(specs, normalise_string(raw_row[i]))]

tag_count(specs, raw_row) ==
    Cardinality({i \in DOMAIN raw_row :
                    MatchingSpecs(specs, normalise_string(raw_row[i])) # {}})

\* Tagger._try_tag_row: the tags, or None (the empty sequence) unless a cell
\* matched and tag_count/float(len(specs)) >= 0.5
_try_tag_row(specs, raw_row) ==
    IF tag_count(specs, raw_row) > 0 /\ 2 * tag_count(specs, raw_row) >= Len(specs)
    THEN tags_of(specs, raw_row)
    ELSE None

\* what a method leaves behind: the object and what the call returned or raised
Left(self, outcome) == [self |-> self, outcome |-> outcome]

\* Tagger._add_tags from pass n of its loop on: next(self.input) raises
\* StopIteration at the end of the input; an empty row ends the search and is
\* not cached
RECURSIVE _add_tags(_, _)
_add_tags(tagger, n) ==
    IF n = HeaderSearchRows THEN Left(tagger, Returns(FALSE))
    ELSE IF tagger.input = <<>> THEN Left(tagger, Raises("StopIteration"))
    ELSE IF Head(tagger.input) = <<>>
         THEN Left([tagger EXCEPT !.input = Tail(@)], Returns(FALSE))
    ELSE IF _try_tag_row(tagger.specs, Head(tagger.input)) # None
         THEN Left([tagger EXCEPT
                       !.input = Tail(@),
                       !._cache = @ \o <<Head(tagger.input),
                                         _try_tag_row(tagger.specs, Head(tagger.input))>>],
                   Returns(TRUE))
    ELSE _add_tags([tagger EXCEPT !.input = Tail(@),
                                  !._cache = Append(@, Head(tagger.input))], n + 1)

\* the end of __next__: from the cache first, else from the input
next_row(tagger) ==
    IF Len(tagger._cache) > 0
    THEN Left([tagger EXCEPT !._cache = Tail(@)], Returns(Head(tagger._cache)))
    ELSE IF tagger.input = <<>> THEN Left(tagger, Raises("StopIteration"))
    ELSE Left([tagger EXCEPT !.input = Tail(@)], Returns(Head(tagger.input)))

\* __next__ after the header search has returned or raised
after_search(search) ==
    IF search.outcome.raised THEN search
    ELSE IF search.outcome.value
         THEN next_row([search.self EXCEPT !._found_tags = TRUE])
    ELSE Left(search.self, Raises("Tagging failed"))

\* Tagger.__next__
Tagger_next(tagger) ==
    IF ~tagger._found_tags THEN after_search(_add_tags(tagger, 0)) ELSE next_row(tagger)

\* what one call of next(tagger) did
NextCalled(left) ==
    /\ rules' = <<left.self>>
    /\ result' = left.outcome
    /\ nrows' = Len(source) - Len(left.self.input)
    /\ calls' = Append(calls, [op |-> "Tagger.next", rule |-> "tagger", row |-> left.outcome])
    /\ lastCall' = [op |-> "Tagger.next", arg |-> <<>>, before |-> rules,
                    errs |-> left.outcome.exception]
    /\ UNCHANGED <<callback, impossible, columns, source, pc, errors>>

\* a caller calls next(tagger), whatever the earlier calls returned or raised
CallNext(max) ==
    /\ pc = "open"
    /\ Len(calls) < max
    /\ NextCalled(Tagger_next(rules[1]))

\* calls a caller makes beyond one for each input row
MaxExtraCalls == 3
\* rows that follow the leading rows of an input
MaxTailRows == 2

Org == <<" ", "O", "r", "g">>
Ab == <<"A", "b">>

\* the i-th of the leading rows: no cell matches a spec
PlainRow(i) == <<[k \in 1..i |-> "1"], <<"c">> >>
\* rows that may follow: no match, one match, two matches, an empty row
TaggerRows == {<<Ab, <<"1">> >>, <<Org, <<"c">> >>, <<Org, Ab>>, <<>>}

\* one, two and three specs: a row with one match qualifies under the first two
TaggerSpecs ==
    {<< <<Org, <<"#", "o", "r", "g">> >> >>,
     << << <<"O", "R">>, <<"#", "o", "r", "g">> >>, << <<"b">>, <<"#", "a", "b">> >> >>,
     << << <<"r", "g">>, <<"#", "o", "r", "g">> >>, << <<"a", "b">>, <<"#", "a", "b">> >>,
        << <<"p">>, <<"#", "p">> >> >>}

\* inputs: none, one, or about HeaderSearchRows plain rows, then the tail
TaggerInputs ==
    {[i \in 1..k |-> PlainRow(i)] \o tail :
        k \in {0, 1, HeaderSearchRows - 1, HeaderSearchRows, HeaderSearchRows + 1},
        tail \in SeqsUpTo(TaggerRows, MaxTailRows)}

InitTagger ==
    /\ source \in TaggerInputs
    /\ \E specs \in TaggerSpecs : rules = <<Tagger(source, specs)>>
    /\ callback = None
    /\ columns = <<>>
    /\ impossible = {}
    /\ pc = "open"
    /\ result = TRUE
    /\ nrows = 0
    /\ errors = <<>>
    /\ calls = <<>>
    /\ lastCall = [op |-> "__init__", arg |-> <<>>, before |-> <<>>, errs |-> <<>>]

NextTagger == CallNext(Len(source) + MaxExtraCalls)

SpecTagger == InitTagger /\ [][NextTagger]_vars

-----------------------------------------------------------------------------
(* Properties of the Tagger, over SpecTagger *)

\* the rows the calls of next have returned, in order
Yielded ==
    [i \in DOMAIN SelectSeq(calls, LAMBDA c : ~c.row.raised) |->
        SelectSeq(calls, LAMBDA c : ~c.row.raised)[i].row.value]

\* the input rows that qualify as a header row
HeaderRows == {i \in DOMAIN source : _try_tag_row(rules[1].specs, source[i]) # None}

FirstHeader == CHOOSE i \in HeaderRows : \A j \in HeaderRows : i <= j

\* the input with the tag row after its first header row
WithTagRow ==
    SubSeq(source, 1, FirstHeader)
        \o <<_try_tag_row(rules[1].specs, source[FirstHeader])>>
        \o SubSeq(source, FirstHeader + 1, Len(source))

\* C33: once the header has been found, the rows yielded so far, then the
\* rows in the cache, then the rows still in the input are the input rows,
\* each once and in input order, with one tag row after the first header
\* row: no input row is lost, duplicated or reordered.
C33_Original ==
    rules[1]._found_tags =>
        /\ HeaderRows # {}
        /\ Yielded \o rules[1]._cache \o rules[1].input = WithTagRow

\* C34: when none of the first 25 input rows qualifies as a header row
\* (none of all the rows of a shorter input), every call of next raises
\* 'Tagging failed' and no tag row is ever added, however many calls follow.
C34_Original ==
    (\A i \in HeaderRows : i > HeaderSearchRows) =>
        /\ \A k \in DOMAIN calls : calls[k].row.exception = <<"Tagging failed">>
        /\ ~rules[1]._found_tags
        /\ \A k \in DOMAIN rules[1]._cache : rules[1]._cache[k] \in Range(source)

-----------------------------------------------------------------------------
(* hxl.old_filters.cut.ColumnFilter (hxl/filters/cut.py holds the same         *)
(* algorithm as HXLCutFilter): columns cut from a dataset.  The indices are    *)
(* those of the code, counted from 0.                                          *)

\* ColumnFilter.__init__
ColumnFilter(include_tags, exclude_tags) ==
    [include_tags |-> include_tags,
     exclude_tags |-> exclude_tags,
     indices |-> <<>>,
     columns_out |-> None]

\* ColumnFilter._test_column
_test_column(filter, column) ==
    IF /\ filter.exclude_tags # <<>>
       /\ \E k \in DOMAIN filter.exclude_tags : match(filter.exclude_tags[k], column)
    THEN FALSE
    ELSE IF filter.include_tags # <<>>
    THEN \E k \in DOMAIN filter.include_tags : match(filter.include_tags[k], column)
    ELSE TRUE

\* the loop of the columns property from index i on
RECURSIVE columns_loop(_, _, _)
columns_loop(filter, cols, i) ==
    IF i = Len(cols) THEN filter
    ELSE IF _test_column(filter, cols[i + 1])
    THEN columns_loop([filter EXCEPT !.columns_out = Some(Append(Val(@), cols[i + 1])),
                                     !.indices = Append(@, i)], cols, i + 1)
    ELSE columns_loop(filter, cols, i + 1)

\* variant: the columns property without its test of columns_out
columns_recomputed(filter, cols) ==
    columns_loop([filter EXCEPT !.columns_out = Some(<<>>)], cols, 0)

\* the columns property: the filter after the read (Val(columns_out) is returned)
ColumnFilter_columns(filter, cols) ==
    IF filter.columns_out = None
    THEN columns_loop([filter EXCEPT !.columns_out = Some(<<>>)], cols, 0)
    ELSE filter

\* the end of Iterator.__next__, the columns read: row_in.values[i] raises
\* IndexError for a row with no value at a kept index
row_out(filter, row_in) ==
    IF \E k \in DOMAIN filter.indices : filter.indices[k] >= Len(row_in.values)
    THEN Left(filter, Raises("IndexError"))
    ELSE Left(filter,
              Returns(Row(Val(filter.columns_out),
                          [k \in DOMAIN filter.indices |->
                              row_in.values[filter.indices[k] + 1]],
                          None)))

\* Iterator.__next__ over the rows not yet pulled
Iterator_next(filter, cols, rows) ==
    IF rows = <<>> THEN Left(filter, Raises("StopIteration"))
    ELSE row_out(ColumnFilter_columns(filter, cols), Head(rows))

\* what a read of columns or a call of next did; pulled rows are counted
FilterCalled(op, left, pulled) ==
    /\ rules' = <<left.self>>
    /\ result' = left.outcome
    /\ nrows' = nrows + pulled
    /\ calls' = Append(calls, [op |-> op, rule |-> "filter", row |-> left.outcome])
    /\ lastCall' = [op |-> op, arg |-> <<>>, before |-> rules,
                    errs |-> left.outcome.exception]
    /\ UNCHANGED <<callback, impossible, columns, source, pc, errors>>

\* a caller reads filter.columns
ReadColumns(max) ==
    /\ pc = "open"
    /\ Len(calls) < max
    /\ FilterCalled("ColumnFilter.columns",
                    Left(ColumnFilter_columns(rules[1], columns),
                         Returns(Val(ColumnFilter_columns(rules[1], columns).columns_out))),
                    0)

\* a caller pulls a row from the filter's iterator
PullRow(max) ==
    /\ pc = "open"
    /\ Len(calls) < max
    /\ FilterCalled("Iterator.next",
                    Iterator_next(rules[1], columns, SubSeq(source, nrows + 1, Len(source))),
                    IF nrows < Len(source) THEN 1 ELSE 0)

\* rows of the source
MaxCutRows == 2
\* reads of columns and calls of next a caller makes
MaxCutCalls == 4

TagBx == Column("#b", {"x"})

CutHeaders ==
    {<<>>, <<TagA, TagB>>, <<TagB, TagBx, TagA>>, <<TagBx, TagA, TagBx>>}

CutPatternLists ==
    {<<>>, <<Pattern("#a", {})>>, <<Pattern("#b", {})>>, <<Pattern("#b", {"x"})>>,
     <<Pattern("#b", {}), Pattern("#a", {})>>}

\* the value of row r under column j
Cell(r, j) == << <<"1", "2", "3", "4">>[r], <<"a", "b", "c">>[j] >>

\* row r of a source with the header cols, with all its values or without the last
CutRow(cols, r, shape) ==
    Row(cols,
        [j \in 1..(IF shape = "short" /\ cols # <<>> THEN Len(cols) - 1 ELSE Len(cols)) |->
            Cell(r, j)],
        r)

InitCut ==
    /\ columns \in CutHeaders
    /\ \E shapes \in SeqsUpTo({"full", "short"}, MaxCutRows) :
          source = [r \in DOMAIN shapes |-> CutRow(columns, r, shapes[r])]
    /\ \E include_tags \in CutPatternLists, exclude_tags \in CutPatternLists :
          rules = <<ColumnFilter(include_tags, exclude_tags)>>
    /\ callback = None
    /\ impossible = {}
    /\ pc = "open"
    /\ result = TRUE
    /\ nrows = 0
    /\ errors = <<>>
    /\ calls = <<>>
    /\ lastCall = [op |-> "__init__", arg |-> <<>>, before |-> <<>>, errs |-> <<>>]

NextCut ==
    \/ ReadColumns(MaxCutCalls)
    \/ PullRow(MaxCutCalls)

SpecCut == InitCut /\ [][NextCut]_vars

-----------------------------------------------------------------------------
(* Properties of the column filter, over SpecCut *)

\* the positions of the source columns to keep: no exclude pattern matches,
\* and some include pattern does unless there is none
Kept ==
    {i \in DOMAIN columns :
        /\ \A k \in DOMAIN rules[1].exclude_tags :
              ~match(rules[1].exclude_tags[k], columns[i])
        /\ \/ rules[1].include_tags = <<>>
           \/ \E k \in DOMAIN rules[1].include_tags :
                 match(rules[1].include_tags[k], columns[i])}

KeptColumns == [k \in DOMAIN Ascending(Kept) |-> columns[Ascending(Kept)[k]]]

\* the source row pulled by the call at position k of the log (0: none left)
PulledBy(k) ==
    IF Len(SelectSeq(SubSeq(calls, 1, k), LAMBDA c : c.op = "Iterator.next")) <= Len(source)
    THEN Len(SelectSeq(SubSeq(calls, 1, k), LAMBDA c : c.op = "Iterator.next"))
    ELSE 0

\* what next has to give for the source row n
RowExpected(n) ==
    IF n = 0 THEN Raises("StopIteration")
    ELSE IF \E i \in Kept : i > Len(source[n].values) THEN Raises("IndexError")
    ELSE Returns(Row(KeptColumns,
                     [k \in DOMAIN Ascending(Kept) |-> source[n].values[Ascending(Kept)[k]]],
                     None))

\* both raised the same exception, or both returned the same value
SameOutcome(a, b) ==
    /\ a.raised = b.raised
    /\ a.exception = b.exception
    /\ ~a.raised => a.value = b.value

\* C35: a column is kept iff no exclude pattern matches it and the include
\* list is empty or holds a pattern that matches it; every read of columns
\* gives the kept columns in source order, every row pulled holds the source
\* row's values at the kept positions under those columns, and the saved
\* columns and indices, once computed, are the same after every read and pull.
C35_KeptColumnsAligned ==
    /\ \A k \in DOMAIN calls :
          IF calls[k].op = "ColumnFilter.columns"
          THEN SameOutcome(calls[k].row, Returns(KeptColumns))
          ELSE SameOutcome(calls[k].row, RowExpected(PulledBy(k)))
    /\ IF rules[1].columns_out = None
       THEN rules[1].indices = <<>>
       ELSE /\ rules[1].columns_out = Some(KeptColumns)
            /\ rules[1].indices = [k \in DOMAIN Ascending(Kept) |-> Ascending(Kept)[k] - 1]

\* a column matching both lists and dropped between two kept ones; columns
\* read twice, the second time after a row; two rows returned
C35_Witness ==
    /\ \E i \in DOMAIN columns :
          /\ i \notin Kept
          /\ \E k \in DOMAIN rules[1].exclude_tags :
                match(rules[1].exclude_tags[k], columns[i])
          /\ \E k \in DOMAIN rules[1].include_tags :
                match(rules[1].include_tags[k], columns[i])
          /\ \E j1, j2 \in Kept : j1 < i /\ i < j2
    /\ Len(calls) = 4
    /\ calls[1].op = "ColumnFilter.columns"
    /\ calls[2].op = "Iterator.next" /\ ~calls[2].row.raised
    /\ calls[3].op = "ColumnFilter.columns"
    /\ calls[4].op = "Iterator.next" /\ ~calls[4].row.raised
    /\ calls[4].row.value.values = <<Cell(2, 1), Cell(2, 3)>>

=============================================================================
